---- MODULE Spec2Model ----
(***************************************************************************)
(* Model of the WBS Hub task-expansion engine (utils/wbs_logic.py,         *)
(* utils/weekly_logic.py) and of the Streamlit wizard that drives it       *)
(* (app.py).                                                               *)
(*                                                                         *)
(* Representation choices                                                  *)
(*  - A Python str is a sequence of one-character strings, so that         *)
(*    str.strip(), f-string concatenation and substring tests are          *)
(*    computed and not assumed.                                            *)
(*  - A binary64 float that the code divides, multiplies or rounds is a    *)
(*    record [m, f]: m is the significand as a sequence of bits (most      *)
(*    significant first, no leading zero), f the number of fractional      *)
(*    bits; its value is m / 2^f.  Division, multiplication and round()    *)
(*    are computed bit by bit with round-half-to-even, as IEEE 754 and     *)
(*    CPython do.                                                          *)
(*  - The result of round(x, casas) is held as the integer number of       *)
(*    units of 10^-casas (33.3 at casas = 1 is 333); the float it stands   *)
(*    for is the one nearest to that decimal.  A sum of such values that   *)
(*    the code rounds again with round(., casas) is taken on the           *)
(*    integers: the binary error of a sum of fewer than 10^6 such doubles  *)
(*    is far below half a unit, so the enclosing round returns the         *)
(*    integer result.  A subtraction is computed on the floats.            *)
(*  - A datetime.date is its proleptic Gregorian ordinal                   *)
(*    (date.toordinal()): ordinal 1 is Monday 0001-01-01.                  *)
(***************************************************************************)
EXTENDS Integers, Sequences, FiniteSets, TLC

VARIABLES
    fn,      \* the engine function under call ("" when none is)
    args,    \* its arguments; a list argument holds the list's content, also after the call
    ret,     \* its return value, once it has returned
    done,    \* whether the call has returned
    \* st.session_state of the wizard
    step, pendencia, tasks_genericas_preview, tasks_genericas, wbs, pending_id,
    codigo_wbs, criar_genericas,
    w_inclui,   \* "inclui_{wbs_type}" checkboxes
    w_cat,      \* "cat_{wbs_type}" select boxes
    w_item,     \* "item_{wbs_type}_{cat_id}_{i}" checkboxes
    w_check,    \* "check_{wbs_type}_{tid}" checkboxes
    w_dias,     \* "dias_{wbs_type}_{tid}" number inputs
    \* what the last script run of the wizard showed
    erros,      \* the st.error messages
    exc,        \* the exception that ended the run ("" when none did)
    chamadas,   \* the expander calls made by the step-3 confirm flow
    planejamentos,  \* the rows of the planejamentos table of the SQLite journal, oldest first
    envios          \* the step-4 submit attempts so far: what the webhooks answered

engine_vars == <<fn, args, ret, done>>
session_vars == <<step, pendencia, tasks_genericas_preview, tasks_genericas, wbs, pending_id,
                  codigo_wbs, criar_genericas, w_inclui, w_cat, w_item, w_check, w_dias>>
run_vars == <<erros, exc, chamadas>>
db_vars == <<planejamentos, envios>>
vars == <<engine_vars, session_vars, run_vars, db_vars>>

(***************************************************************************)
(* Bounds of the model                                                     *)
(***************************************************************************)
MaxDias == 30          \* largest day count given to calcular_percentuais
MaxDiasSel == 3        \* largest day count of a selection in a selection list
MaxSel == 2            \* longest selection list
MaxItens == 3          \* longest item list
MaxItemLen == 2        \* longest item text
MaxN == 9              \* largest n given to _distribuir_com_ajuste_final
MaxTotal4 == 14        \* largest total, in quarters, given to _distribuir_com_ajuste_final
MaxCasas == 1          \* largest number of decimals given to _distribuir_com_ajuste_final
MinData == 22          \* earliest date of a date range: Monday 0001-01-22
MaxData == 45          \* latest date of a date range: Wednesday 0001-02-14
MaxColab == 3          \* largest headcount
MaxPrazoW == 1         \* wizard: latest deadline, in days after today
MaxInicioW == 1        \* wizard: latest start date, in days after today
MaxColabW == 2         \* wizard: largest headcount
MaxDiasW == 2          \* wizard: largest day count of a task
MaxEnvios == 3         \* submit attempts of one session at step 4
MaxChamadas == 3       \* longest sequence of expander calls made in a row
MaxMilesimos == 260    \* largest of the consecutive percentages, in thousandths, given to formatar_nome_task_generica

(***************************************************************************)
(* Generic helpers                                                         *)
(***************************************************************************)
RECURSIVE SumRange(_, _, _)
\* s[lo] + ... + s[hi], by halving
SumRange(s, lo, hi) ==
    IF lo > hi THEN 0
    ELSE IF lo = hi THEN s[lo]
    ELSE LET mid == (lo + hi) \div 2
         IN  SumRange(s, lo, mid) + SumRange(s, mid + 1, hi)

SumSeq(s) == SumRange(s, 1, Len(s))

RECURSIVE FlattenRange(_, _, _)
\* ss[lo] \o ... \o ss[hi], by halving
FlattenRange(ss, lo, hi) ==
    IF lo > hi THEN <<>>
    ELSE IF lo = hi THEN ss[lo]
    ELSE LET mid == (lo + hi) \div 2
         IN  FlattenRange(ss, lo, mid) \o FlattenRange(ss, mid + 1, hi)

Flatten(ss) == FlattenRange(ss, 1, Len(ss))

Max(a, b) == IF a >= b THEN a ELSE b
Min(a, b) == IF a <= b THEN a ELSE b

\* All sequences over S of length 0..n
SeqsUpTo(S, n) == UNION {[1..k -> S] : k \in 0..n}

(***************************************************************************)
(* binary64 arithmetic                                                     *)
(***************************************************************************)
MantBits == 53         \* significand width of a binary64 float
LimbBits == 13         \* width of the limbs used to multiply a significand

\* number of binary digits of a natural number below 2^30
BitLen(k) == CHOOSE L \in 0..30 : k < 2^L /\ (L = 0 \/ k >= 2^(L - 1))

\* binary digits of a natural number, most significant first; 0 is <<>>
IntBits(k) == [j \in 1..BitLen(k) |-> (k \div 2^(BitLen(k) - j)) % 2]

\* value of at most 30 bits
BitsToInt(b) == SumSeq([j \in 1..Len(b) |-> b[j] * 2^(Len(b) - j)])

\* the bit sequence plus one
IncBits(b) ==
    LET zeros == {j \in 1..Len(b) : b[j] = 0}
    IN  IF zeros = {} THEN <<1>> \o [j \in 1..Len(b) |-> 0]
        ELSE LET p == CHOOSE j \in zeros : \A k \in zeros : k <= j
             IN  [j \in 1..Len(b) |-> IF j < p THEN b[j] ELSE IF j = p THEN 1 ELSE 0]

StripZeros(b) ==
    LET ones == {j \in 1..Len(b) : b[j] = 1}
    IN  IF ones = {} THEN <<>>
        ELSE LET p == CHOOSE j \in ones : \A k \in ones : j <= k
             IN  SubSeq(b, p, Len(b))

\* limb k (k = 1 is the least significant) of a bit sequence
Limb(b, k) ==
    LET hi == Len(b) - (k - 1) * LimbBits
    IN  BitsToInt(SubSeq(b, Max(1, hi - LimbBits + 1), hi))

RECURSIVE MulLimbs(_, _, _, _, _)
\* limb-wise product by the small natural i, from the least significant limb:
\* the product limbs (most significant first) and the final carry
MulLimbs(limbs, i, k, c, acc) ==
    IF k > Len(limbs) THEN [carry |-> c, prods |-> acc]
    ELSE LET d == limbs[k] * i + c
         IN  MulLimbs(limbs, i, k + 1, d \div 2^LimbBits, <<d % 2^LimbBits>> \o acc)

\* the bit sequence times the small natural i (i < 2^16), exactly
MulBits(b, i) ==
    LET nl == (Len(b) + LimbBits - 1) \div LimbBits
        limbs == <<>> \o [k \in 1..nl |-> Limb(b, k)]
        p == MulLimbs(limbs, i, 1, 0, <<>>)
        low == [j \in 1..(nl * LimbBits) |->
                   (p.prods[1 + ((j - 1) \div LimbBits)]
                        \div 2^(LimbBits - 1 - ((j - 1) % LimbBits))) % 2]
    IN  StripZeros(IntBits(p.carry) \o low)

\* round a significand to MantBits significant bits, ties to even
RoundSig(x) ==
    LET L == Len(x.m)
    IN  IF L <= MantBits THEN x
        ELSE LET kept == SubSeq(x.m, 1, MantBits)
                 rb == x.m[MantBits + 1]
                 sticky == \E j \in (MantBits + 2)..L : x.m[j] = 1
                 up == rb = 1 /\ (sticky \/ kept[MantBits] = 1)
             IN  [m |-> IF up THEN IncBits(kept) ELSE kept, f |-> x.f - (L - MantBits)]

RECURSIVE PowMod2(_, _)
\* 2^k mod b
PowMod2(k, b) ==
    IF k = 0 THEN 1 % b
    ELSE IF k % 2 = 0 THEN LET h == PowMod2(k \div 2, b) IN (h * h) % b
    ELSE (2 * PowMod2(k - 1, b)) % b

\* the float a / b for naturals a >= 1, b >= 1 (both below 2^15): the quotient
\* by long division, correctly rounded to MantBits bits, ties to even
FDivPos(a, b) ==
    LET q == a \div b
        r0 == a % b
        \* lead: number of zero fraction bits before the first significant one
        lead == IF q > 0 THEN 0
                ELSE (CHOOSE j \in 1..16 : a * 2^j >= b /\ a * 2^(j - 1) < b) - 1
        nf == lead + MantBits - BitLen(q)           \* fraction bits produced
        rem(j) == (r0 * PowMod2(j, b)) % b          \* remainder after j fraction bits
        frac == [j \in 1..(nf - lead) |-> (2 * rem(lead + j - 1)) \div b]
        bits == IntBits(q) \o frac
        rest == rem(nf)
        up == 2 * rest > b \/ (2 * rest = b /\ bits[MantBits] = 1)
    IN  [m |-> IF up THEN IncBits(bits) ELSE bits, f |-> nf]

FDiv(a, b) == IF a = 0 THEN [m |-> <<>>, f |-> 0] ELSE FDivPos(a, b)

\* the float x * i for a float x and a small natural i
FMulInt(x, i) == RoundSig([m |-> MulBits(x.m, i), f |-> x.f])

\* the limbs of a bit sequence, least significant first, padded to nl limbs
Limbs(b, nl) ==
    <<>> \o [k \in 1..nl |-> IF (k - 1) * LimbBits < Len(b) THEN Limb(b, k) ELSE 0]

\* the bits of nl limbs given most significant first
LimbsToBits(limbs, nl) ==
    [j \in 1..(nl * LimbBits) |->
        (limbs[1 + ((j - 1) \div LimbBits)] \div 2^(LimbBits - 1 - ((j - 1) % LimbBits))) % 2]

RECURSIVE SubLimbs(_, _, _, _, _)
\* limb-wise difference la - lb (la >= lb), from the least significant limb:
\* the difference limbs, most significant first
SubLimbs(la, lb, k, borrow, acc) ==
    IF k > Len(la) THEN acc
    ELSE LET d == la[k] - lb[k] - borrow
         IN  IF d < 0 THEN SubLimbs(la, lb, k + 1, 1, <<d + 2^LimbBits>> \o acc)
             ELSE SubLimbs(la, lb, k + 1, 0, <<d>> \o acc)

\* a < b for bit sequences without leading zeros
LessBits(a, b) ==
    \/ Len(a) < Len(b)
    \/ /\ Len(a) = Len(b)
       /\ \E j \in 1..Len(a) : a[j] < b[j] /\ \A k \in 1..(j - 1) : a[k] = b[k]

\* a - b for bit sequences without leading zeros, a >= b
SubBits(a, b) ==
    LET nl == (Len(a) + LimbBits - 1) \div LimbBits
    IN  StripZeros(LimbsToBits(SubLimbs(Limbs(a, nl), Limbs(b, nl), 1, 0, <<>>), nl))

\* the float x - y of two non-negative floats: the exact difference rounded to
\* MantBits bits; neg tells its sign, abs is its magnitude
FSub(x, y) ==
    LET f == Max(x.f, y.f)
        ax == StripZeros(x.m \o [j \in 1..(f - x.f) |-> 0])
        ay == StripZeros(y.m \o [j \in 1..(f - y.f) |-> 0])
    IN  IF LessBits(ax, ay)
        THEN [neg |-> TRUE, abs |-> RoundSig([m |-> SubBits(ay, ax), f |-> f])]
        ELSE [neg |-> FALSE, abs |-> RoundSig([m |-> SubBits(ax, ay), f |-> f])]

\* round-half-to-even of the exact value of [m, f] to an integer
RoundBitsToInt(x) ==
    LET L == Len(x.m)
        ip == IF L > x.f THEN BitsToInt(SubSeq(x.m, 1, L - x.f)) ELSE 0
        half == IF x.f >= 1 /\ L >= x.f THEN x.m[L - x.f + 1] ELSE 0
        sticky == \E j \in 1..L : j > L - x.f + 1 /\ x.m[j] = 1
    IN  IF half = 1 /\ (sticky \/ ip % 2 = 1) THEN ip + 1 ELSE ip

\* Python round(x) of a float
PyRound(x) == RoundBitsToInt(x)

Pow10(casas) == 10^casas

\* Python round(x, casas) of a float, as a number of units of 10^-casas
PyRoundN(x, casas) == RoundBitsToInt([m |-> MulBits(x.m, Pow10(casas)), f |-> x.f])

\* Python round(x, casas) of a float with a sign
PyRoundNSigned(x, casas) ==
    IF x.neg THEN 0 - PyRoundN(x.abs, casas) ELSE PyRoundN(x.abs, casas)

\* the float of a number of quarters
FloatDeQuartos(q) == [m |-> IntBits(q), f |-> 2]

\* round-half-to-even of the rational num / den (den > 0)
RoundHalfEven(num, den) ==
    LET q == num \div den
        r == num % den
    IN  IF 2 * r > den \/ (2 * r = den /\ q % 2 = 1) THEN q + 1 ELSE q

(***************************************************************************)
(* utils/wbs_logic.py                                                      *)
(***************************************************************************)
\* variant: the loop runs over range(1, dias) and never reaches i == dias
calcular_percentuais_range_curto(dias) ==
    IF dias <= 0 THEN <<>>
    ELSE IF dias = 1 THEN <<100>>
    ELSE LET incremento == FDiv(100, dias)
         IN  [i \in 1..(dias - 1) |-> Min(PyRound(FMulInt(incremento, i)), 100)]

calcular_percentuais(dias) ==
    IF dias <= 0 THEN <<>>
    ELSE IF dias = 1 THEN <<100>>
    ELSE LET incremento == FDiv(100, dias)
         IN  [i \in 1..dias |->
                 IF i = dias THEN 100
                 ELSE Min(PyRound(FMulInt(incremento, i)), 100)]

\* str(n) of an integer
DigitChars == <<"0", "1", "2", "3", "4", "5", "6", "7", "8", "9">>

RECURSIVE StrNat(_)
StrNat(n) == IF n < 10 THEN <<DigitChars[n + 1]>> ELSE StrNat(n \div 10) \o <<DigitChars[(n % 10) + 1]>>

Str(n) == IF n < 0 THEN <<"-">> \o StrNat(-n) ELSE StrNat(n)

\* str.strip(): drop leading and trailing whitespace
IsSpace(c) == c \in {" ", "\t", "\n"}

strip(t) ==
    LET solid == {j \in 1..Len(t) : ~IsSpace(t[j])}
    IN  IF solid = {} THEN <<>>
        ELSE LET first == CHOOSE j \in solid : \A k \in solid : j <= k
                 last == CHOOSE j \in solid : \A k \in solid : k <= j
             IN  SubSeq(t, first, last)

\* tarefa.get("dias", 0)
GetDias(tarefa) == IF "dias" \in DOMAIN tarefa THEN tarefa.dias ELSE 0

\* f"{nome_wbs} - {ordem}. {nome_tarefa} - {percentual}%"
FormatTarefaPercentual(nome_wbs, ordem, nome_tarefa, percentual) ==
    nome_wbs \o <<" ", "-", " ">> \o Str(ordem) \o <<".", " ">> \o nome_tarefa
        \o <<" ", "-", " ">> \o Str(percentual) \o <<"%">>

\* the inner loop of gerar_tarefas_expandidas: the entries of one selection
ExpandirTarefa(nome_wbs, projeto, wbs_type, tarefa) ==
    LET percentuais == calcular_percentuais(tarefa.dias)
    IN  [k \in 1..Len(percentuais) |->
            [tarefa |-> FormatTarefaPercentual(nome_wbs, tarefa.id, tarefa.nome, percentuais[k]),
             projeto |-> projeto,
             wbs_type |-> wbs_type]]

\* variant: each selection's entries are inserted at the front of the list
gerar_tarefas_expandidas_na_frente(nome_wbs, projeto, wbs_type, tarefas_selecionadas) ==
    Flatten([s \in 1..Len(tarefas_selecionadas) |->
                ExpandirTarefa(nome_wbs, projeto, wbs_type,
                               tarefas_selecionadas[Len(tarefas_selecionadas) + 1 - s])])

gerar_tarefas_expandidas(nome_wbs, projeto, wbs_type, tarefas_selecionadas) ==
    Flatten([s \in 1..Len(tarefas_selecionadas) |->
                ExpandirTarefa(nome_wbs, projeto, wbs_type, tarefas_selecionadas[s])])

MsgSelecaoVazia == <<"S", "e", "l", "e", "c", "i", "o", "n", "e", " ", "p", "e", "l", "o", " ", "m", "e", "n", "o", "s", " ", "u", "m", "a", " ", "t", "a", "r", "e", "f", "a", ".">>

\* f"A tarefa '{tarefa['nome']}' precisa ter pelo menos 1 dia."
MsgDiasInvalidos(nome) == <<"A", " ", "t", "a", "r", "e", "f", "a", " ", "'">> \o nome \o <<"'", " ", "p", "r", "e", "c", "i", "s", "a", " ", "t", "e", "r", " ", "p", "e", "l", "o", " ", "m", "e", "n", "o", "s", " ", "1", " ", "d", "i", "a", ".">>

\* variant: the day count is tested with < 0
validar_selecao_menor_que_zero(tarefas_selecionadas) ==
    IF tarefas_selecionadas = <<>> THEN <<FALSE, MsgSelecaoVazia>>
    ELSE LET ruins == {j \in 1..Len(tarefas_selecionadas) : GetDias(tarefas_selecionadas[j]) < 0}
         IN  IF ruins # {}
             THEN LET j == CHOOSE k \in ruins : \A l \in ruins : k <= l
                  IN  <<FALSE, MsgDiasInvalidos(tarefas_selecionadas[j].nome)>>
             ELSE <<TRUE, <<>>>>

validar_selecao(tarefas_selecionadas) ==
    IF tarefas_selecionadas = <<>> THEN <<FALSE, MsgSelecaoVazia>>
    ELSE LET ruins == {j \in 1..Len(tarefas_selecionadas) : GetDias(tarefas_selecionadas[j]) <= 0}
         IN  IF ruins # {}
             THEN LET j == CHOOSE k \in ruins : \A l \in ruins : k <= l
                  IN  <<FALSE, MsgDiasInvalidos(tarefas_selecionadas[j].nome)>>
             ELSE <<TRUE, <<>>>>

\* f"{nome_wbs} - <{item}> - {tarefa}"
FormatTarefaMultiplicador(nome_wbs, item, tarefa) ==
    nome_wbs \o <<" ", "-", " ", "<">> \o item \o <<">", " ", "-", " ">> \o tarefa

\* variant: the item is trimmed but a blank item is not skipped
ExpandirItem_sem_filtro(nome_wbs, projeto, wbs_type, categoria_nome, item0, tarefas_fixas) ==
    [k \in 1..Len(tarefas_fixas) |->
        [tarefa |-> FormatTarefaMultiplicador(nome_wbs, strip(item0), tarefas_fixas[k]),
         projeto |-> projeto,
         wbs_type |-> wbs_type,
         categoria |-> categoria_nome]]

\* the body of the loop over itens: the entries of one item
ExpandirItem(nome_wbs, projeto, wbs_type, categoria_nome, item0, tarefas_fixas) ==
    LET item == strip(item0)
    IN  IF item = <<>> THEN <<>>
        ELSE [k \in 1..Len(tarefas_fixas) |->
                 [tarefa |-> FormatTarefaMultiplicador(nome_wbs, item, tarefas_fixas[k]),
                  projeto |-> projeto,
                  wbs_type |-> wbs_type,
                  categoria |-> categoria_nome]]

\* variant: the items are trimmed in the caller's list
gerar_tarefas_multiplicador_strip_no_lugar(nome_wbs, projeto, wbs_type, categoria_nome, itens, tarefas_fixas) ==
    [ret |-> Flatten([s \in 1..Len(itens) |->
                         ExpandirItem(nome_wbs, projeto, wbs_type, categoria_nome, itens[s], tarefas_fixas)]),
     itens |-> [s \in 1..Len(itens) |-> strip(itens[s])]]

\* the returned list, and the caller's itens list as the call leaves it
gerar_tarefas_multiplicador(nome_wbs, projeto, wbs_type, categoria_nome, itens, tarefas_fixas) ==
    [ret |-> Flatten([s \in 1..Len(itens) |->
                         ExpandirItem(nome_wbs, projeto, wbs_type, categoria_nome, itens[s], tarefas_fixas)]),
     itens |-> itens]

MsgSemItens == <<"D", "i", "g", "i", "t", "e", " ", "p", "e", "l", "o", " ", "m", "e", "n", "o", "s", " ", "u", "m", " ", "i", "t", "e", "m", ".">>

\* variant: the items are tested without trimming
validar_multiplicador_sem_strip(itens) ==
    LET itens_validos == SelectSeq(itens, LAMBDA i : i # <<>>)
    IN  [ret |-> IF itens_validos = <<>> THEN <<FALSE, MsgSemItens>> ELSE <<TRUE, <<>>>>,
         itens |-> itens]

\* the returned pair, and the caller's itens list as the call leaves it
validar_multiplicador(itens) ==
    LET itens_validos == SelectSeq([j \in 1..Len(itens) |-> strip(itens[j])], LAMBDA i : i # <<>>)
    IN  [ret |-> IF itens_validos = <<>> THEN <<FALSE, MsgSemItens>> ELSE <<TRUE, <<>>>>,
         itens |-> itens]

(***************************************************************************)
(* utils/weekly_logic.py                                                   *)
(***************************************************************************)
\* date.weekday(): Monday = 0 ... Sunday = 6
weekday(d) == (d + 6) % 7

DiasAntesDoMes == <<0, 31, 59, 90, 120, 151, 181, 212, 243, 273, 304, 334, 365>>

\* year, month and day of an ordinal of the years 1 to 3 (none of them leap)
AnoDe(d) == 1 + ((d - 1) \div 365)
MesDe(d) ==
    LET doy == 1 + ((d - 1) % 365)
    IN  CHOOSE m \in 1..12 : DiasAntesDoMes[m] < doy /\ doy <= DiasAntesDoMes[m + 1]
DiaDe(d) == 1 + ((d - 1) % 365) - DiasAntesDoMes[MesDe(d)]

\* the decimal digits of n, zero-padded on the left to the given width
ZeroPad(n, width) ==
    LET t == StrNat(n)
    IN  [j \in 1..(Max(width, Len(t)) - Len(t)) |-> "0"] \o t

\* date.isoformat(): "YYYY-MM-DD"
isoformat(d) == ZeroPad(AnoDe(d), 4) \o <<"-">> \o ZeroPad(MesDe(d), 2) \o <<"-">> \o ZeroPad(DiaDe(d), 2)

\* variant: a holiday is not moved
resolver_data_task_sem_feriado(sexta, feriados) == sexta

\* feriados is the set built by set(feriados)
resolver_data_task(sexta, feriados) ==
    IF sexta \notin feriados THEN sexta ELSE sexta + 3

_proxima_sexta_ou_mesma(data_inicio) == data_inicio + ((4 - weekday(data_inicio)) % 7)

\* the candidates of the while loop: every seventh day from the first Friday
\* while candidata <= prazo_limite
Candidatas(data_inicio, prazo_limite) ==
    LET primeira == _proxima_sexta_ou_mesma(data_inicio)
        voltas == IF primeira > prazo_limite THEN 0 ELSE ((prazo_limite - primeira) \div 7) + 1
    IN  [k \in 1..voltas |-> primeira + 7 * (k - 1)]

\* variant: the effective date is not compared with prazo_limite
proximas_datas_tasks_sem_filtro(data_inicio, prazo_limite, feriados) ==
    LET cands == Candidatas(data_inicio, prazo_limite)
        resultado == [k \in 1..Len(cands) |->
                         <<resolver_data_task(cands[k], feriados), cands[k] \in feriados>>]
    IN  IF resultado = <<>> /\ data_inicio <= prazo_limite
        THEN << <<prazo_limite, FALSE>> >>
        ELSE resultado

\* variant: no single task at the deadline when the walk yields nothing
proximas_datas_tasks_sem_borda(data_inicio, prazo_limite, feriados) ==
    LET cands == SelectSeq(Candidatas(data_inicio, prazo_limite),
                           LAMBDA c : resolver_data_task(c, feriados) <= prazo_limite)
    IN  [k \in 1..Len(cands) |->
            <<resolver_data_task(cands[k], feriados), cands[k] \in feriados>>]

\* a list of (data_task, foi_ajustada) pairs
proximas_datas_tasks(data_inicio, prazo_limite, feriados) ==
    LET cands == SelectSeq(Candidatas(data_inicio, prazo_limite),
                           LAMBDA c : resolver_data_task(c, feriados) <= prazo_limite)
        resultado == [k \in 1..Len(cands) |->
                         <<resolver_data_task(cands[k], feriados), cands[k] \in feriados>>]
    IN  IF resultado = <<>> /\ data_inicio <= prazo_limite
        THEN << <<prazo_limite, FALSE>> >>
        ELSE resultado

\* variant: the last share is left at base
_distribuir_sem_ajuste_final(total4, n, casas) ==
    IF n <= 0 THEN <<>>
    ELSE [k \in 1..n |-> PyRoundN(FDiv(total4, 4 * n), casas)]

\* total is given in quarters (total4 = 4 * total); the shares are returned in
\* units of 10^-casas.  soma_parcial, round(sum(...), casas), is the float
\* nearest to the decimal sum of the n-1 shares; total - soma_parcial is the
\* float subtraction, and round(., casas) rounds that float.
_distribuir_com_ajuste_final(total4, n, casas) ==
    IF n <= 0 THEN <<>>
    ELSE LET base == PyRoundN(FDiv(total4, 4 * n), casas)
             valores == [k \in 1..n |-> base]
             soma_parcial == IF n > 1 THEN FDiv(SumSeq(SubSeq(valores, 1, n - 1)), Pow10(casas))
                             ELSE FDiv(0, 1)
             ultimo == PyRoundNSigned(FSub(FloatDeQuartos(total4), soma_parcial), casas)
         IN  [valores EXCEPT ![n] = ultimo]

\* variant: Saturday counts as a working day
dias_uteis_no_intervalo_com_sabado(data_inicio, prazo_limite) ==
    IF data_inicio > prazo_limite THEN <<>>
    ELSE SelectSeq([k \in 1..(prazo_limite - data_inicio + 1) |-> data_inicio + k - 1],
                   LAMBDA d : weekday(d) < 6)

dias_uteis_no_intervalo(data_inicio, prazo_limite) ==
    IF data_inicio > prazo_limite THEN <<>>
    ELSE SelectSeq([k \in 1..(prazo_limite - data_inicio + 1) |-> data_inicio + k - 1],
                   LAMBDA d : weekday(d) < 5)

\* variant: the loops are nested the other way round (owner-major)
distribuir_tasks_diarias_por_dono(data_inicio, prazo_limite, colaboradores, horas_por_colaborador) ==
    IF colaboradores <= 0 THEN <<>>
    ELSE LET dias == dias_uteis_no_intervalo(data_inicio, prazo_limite)
         IN  IF dias = <<>> THEN <<>>
             ELSE LET total_tasks == Len(dias) * colaboradores
                      percentuais == _distribuir_com_ajuste_final(400, total_tasks, 1)
                  IN  Flatten([dono_idx \in 1..colaboradores |->
                          [k \in 1..Len(dias) |->
                              [data |-> isoformat(dias[k]),
                               horas_previstas |-> horas_por_colaborador,
                               percentual_pendencia |-> percentuais[(dono_idx - 1) * Len(dias) + k],
                               status |-> "planejada",
                               ajustada_feriado |-> FALSE,
                               dono_idx |-> dono_idx,
                               dono_total |-> colaboradores]]])

\* horas_por_colaborador and percentual_pendencia are in tenths
distribuir_tasks_diarias_por_colaboradores(data_inicio, prazo_limite, colaboradores, horas_por_colaborador) ==
    IF colaboradores <= 0 THEN <<>>
    ELSE LET dias == dias_uteis_no_intervalo(data_inicio, prazo_limite)
         IN  IF dias = <<>> THEN <<>>
             ELSE LET total_tasks == Len(dias) * colaboradores
                      percentuais == _distribuir_com_ajuste_final(400, total_tasks, 1)
                  IN  Flatten([k \in 1..Len(dias) |->
                          [dono_idx \in 1..colaboradores |->
                              [data |-> isoformat(dias[k]),
                               horas_previstas |-> horas_por_colaborador,
                               percentual_pendencia |-> percentuais[(k - 1) * colaboradores + dono_idx],
                               status |-> "planejada",
                               ajustada_feriado |-> FALSE,
                               dono_idx |-> dono_idx,
                               dono_total |-> colaboradores]]])

\* horas_totais is given in quarters of an hour; horas_previstas and
\* percentual_pendencia are in tenths
distribuir_tasks_semanais(data_inicio, prazo_limite, horas_totais, feriados) ==
    LET datas == dias_uteis_no_intervalo(data_inicio, prazo_limite)
    IN  IF datas = <<>> THEN <<>>
        ELSE LET n == Len(datas)
                 horas_por_semana == _distribuir_com_ajuste_final(horas_totais, n, 1)
                 percentuais == _distribuir_com_ajuste_final(400, n, 1)
             IN  [k \in 1..n |->
                     [data |-> isoformat(datas[k]),
                      horas_previstas |-> horas_por_semana[k],
                      percentual_pendencia |-> percentuais[k],
                      status |-> "planejada",
                      ajustada_feriado |-> FALSE]]

(***************************************************************************)
(* Inputs of the engine calls                                              *)
(***************************************************************************)
Codigos == {<<>>, <<"0", "1", "0">>}
Projetos == {"Projeto A", "Projeto B"}
WbsTypes == {"eletrico", "mecanico"}
NomesTarefa == {<<"X">>, <<"Y", "z">>}
Selecoes == [id : 1..2, nome : NomesTarefa, dias : -1..MaxDiasSel]
ListasSelecao == SeqsUpTo(Selecoes, MaxSel)

ItemChars == {" ", "a"}
Itens == SeqsUpTo(ItemChars, MaxItemLen)
ListasItens == SeqsUpTo(Itens, MaxItens)
TarefaFixa1 == <<"D", "e", "f">>
TarefaFixa2 == <<"V", "e", "r">>
ListasTarefasFixas == {<<>>, <<TarefaFixa1>>, <<TarefaFixa1, TarefaFixa2>>}
Categorias == {"Hardware"}

Datas == MinData..MaxData
\* horas_por_colaborador, in tenths: the default 9.0 and 4.5
HorasPorColaborador == {90, 45}
\* the holiday calendars: Friday 0001-01-26, Monday 0001-01-29, Friday 0001-02-09
DatasFeriado == {26, 29, 40}
Feriados == SUBSET DatasFeriado
\* horas_totais, in quarters of an hour: 0.75, 40.0 and 40.25
HorasTotais == {3, 160, 161}
\* percentual of a task name, in thousandths: every value from -0.060 to
\* MaxMilesimos thousandths, and 16.7, 33.333, 50.0, 99.95, 99.96 and 100.0
PercentuaisNome == ((0 - 60)..MaxMilesimos) \cup {16700, 33333, 50000, 99950, 99960, 100000}
OsNome == {<<"0", "1">>}
SubconjuntosNome == {<<"S">>, <<"E", "s", "t", " ", "1">>}
DatasNome == {MinData, 31, 32, MaxData}

ArgsDe(f) ==
    CASE f = "calcular_percentuais" -> [dias : -1..MaxDias]
      [] f = "gerar_tarefas_expandidas" ->
            [nome_wbs : Codigos, projeto : Projetos, wbs_type : WbsTypes,
             tarefas_selecionadas : ListasSelecao]
      [] f = "validar_selecao" -> [tarefas_selecionadas : ListasSelecao]
      [] f = "gerar_tarefas_multiplicador" ->
            [nome_wbs : Codigos, projeto : {"Projeto A"}, wbs_type : {"aquisicao"},
             categoria_nome : Categorias, itens : ListasItens,
             tarefas_fixas : ListasTarefasFixas]
      [] f = "validar_multiplicador" -> [itens : ListasItens]
      [] f = "_distribuir_com_ajuste_final" ->
            [total4 : (0..MaxTotal4) \cup {400}, n : (-1..MaxN) \cup {54, 2000}, casas : 0..MaxCasas]
      [] f = "distribuir_tasks_diarias_por_colaboradores" ->
            [data_inicio : Datas, prazo_limite : Datas, colaboradores : -1..MaxColab,
             horas_por_colaborador : HorasPorColaborador]
      [] f = "resolver_data_task" -> [sexta : Datas, feriados : Feriados]
      [] f = "proximas_datas_tasks" ->
            [data_inicio : Datas, prazo_limite : Datas, feriados : Feriados]
      [] f = "formatar_nome_task_generica" ->
            [os : OsNome, subconjunto : SubconjuntosNome, percentual : PercentuaisNome,
             data : DatasNome]
      [] f = "distribuir_tasks_semanais" ->
            [data_inicio : Datas, prazo_limite : Datas, horas_totais : HorasTotais,
             feriados : {{}, DatasFeriado}]

Funcoes ==
    {"calcular_percentuais", "gerar_tarefas_expandidas", "validar_selecao",
     "gerar_tarefas_multiplicador", "validar_multiplicador",
     "_distribuir_com_ajuste_final", "distribuir_tasks_diarias_por_colaboradores",
     "resolver_data_task", "proximas_datas_tasks", "distribuir_tasks_semanais",
     "formatar_nome_task_generica"}

(***************************************************************************)
(* app.py: configuration read at start-up                                  *)
(***************************************************************************)
\* Python None, where the code only tests it for truth
None == <<>>

\* date.today(): Monday 0001-01-22
Hoje == 22

\* carregar_projetos(): data/projetos.json is absent
projetos == <<>>

\* carregar_templates(): one template of each tipo_logica, in dict order
TemplateOrder == <<"eletrico", "aquisicao">>
Templates ==
    [eletrico |->
        [nome |-> <<"E", "l", "e", "t", "r", "i", "c", "o">>, tipo_logica |-> "percentual",
         tarefas |-> << [id |-> 1, nome |-> <<"X">>, dias_default |-> 1] >>],
     aquisicao |->
        [nome |-> <<"A", "q", "u", "i", "s", "i", "c", "a", "o">>, tipo_logica |-> "multiplicador",
         categorias |-> << [id |-> "hw", nome |-> "Hardware",
                            itens |-> << <<"a", " ">> >>,
                            tarefas |-> <<TarefaFixa1, TarefaFixa2>>] >>]]

TemplateKeys == {TemplateOrder[k] : k \in 1..Len(TemplateOrder)}
Percentuais == {t \in TemplateKeys : Templates[t].tipo_logica = "percentual"}
Multiplicadores == {t \in TemplateKeys : Templates[t].tipo_logica = "multiplicador"}
CheckKeys ==
    UNION {{<<t, Templates[t].tarefas[k].id>> : k \in 1..Len(Templates[t].tarefas)} : t \in Percentuais}
ItemKeys ==
    UNION {{<<t, i - 1>> : i \in 1..Len(Templates[t].categorias[1].itens)} : t \in Multiplicadores}

(***************************************************************************)
(* utils/weekly_logic.py: task names                                       *)
(***************************************************************************)
DigitVal(c) == CHOOSE v \in 0..9 : DigitChars[v + 1] = c

\* datetime.strptime(s, "%Y-%m-%d").date() of an isoformat text
strptime(t) ==
    LET num(i, j) == SumSeq([k \in 1..(j - i + 1) |-> DigitVal(t[i + k - 1]) * 10^(j - i + 1 - k)])
    IN  (num(1, 4) - 1) * 365 + DiasAntesDoMes[num(6, 7)] + num(9, 10)

\* the float literal 1e-9
UmBilionesimo ==
    [m |-> <<1, 0, 0, 0, 1, 0, 0, 1, 0, 1, 1, 1, 0, 0, 0, 0,
             0, 1, 0, 1, 1, 1, 1, 1, 0, 1, 0, 0, 0, 0, 0, 1,
             0, 0, 1, 1, 0, 1, 1, 0, 1, 0, 1, 1, 0, 1, 0, 0,
             1, 0, 1, 0, 1>>,
     f |-> 82]

\* x < y for two non-negative floats
FLess(x, y) ==
    LET f == Max(x.f, y.f)
    IN  LessBits(StripZeros(x.m \o [j \in 1..(f - x.f) |-> 0]),
                 StripZeros(y.m \o [j \in 1..(f - y.f) |-> 0]))

\* variant: always one decimal digit
FormatPercentual_sempre_decimal(percentual) ==
    LET mag == IF percentual < 0 THEN 0 - percentual ELSE percentual
        sinal == IF percentual < 0 THEN <<"-">> ELSE <<>>
        decimos == PyRoundN(FDiv(mag, 1000), 1)
    IN  sinal \o StrNat(decimos \div 10) \o <<".">> \o StrNat(decimos % 10) \o <<"%">>

\* f"{percentual:.0f}%" when abs(percentual - round(percentual)) < 1e-9, else
\* f"{percentual:.1f}%"; percentual is given in thousandths and stands for the
\* float nearest to that decimal
FormatPercentual(percentual) ==
    LET mag == IF percentual < 0 THEN 0 - percentual ELSE percentual
        sinal == IF percentual < 0 THEN <<"-">> ELSE <<>>
        x == FDiv(mag, 1000)
        inteiro == PyRound(x)
        resto == FSub(x, [m |-> IntBits(inteiro), f |-> 0]).abs
        decimos == PyRoundN(x, 1)
    IN  IF FLess(resto, UmBilionesimo) THEN sinal \o StrNat(inteiro) \o <<"%">>
        ELSE sinal \o StrNat(decimos \div 10) \o <<".">> \o StrNat(decimos % 10) \o <<"%">>

\* f"{os} - {subconjunto} - {pct_str} | Dia {data.strftime('%d/%m')}"
formatar_nome_task_generica(os, subconjunto, percentual, data) ==
    os \o <<" ", "-", " ">> \o subconjunto \o <<" ", "-", " ">> \o FormatPercentual(percentual)
       \o <<" ", "|", " ", "D", "i", "a", " ">> \o ZeroPad(DiaDe(data), 2) \o <<"/">> \o ZeroPad(MesDe(data), 2)

(***************************************************************************)
(* app.py: the wizard                                                      *)
(***************************************************************************)
\* st.session_state.pendencia is {} or the dict set by step 1: a set holding
\* at most one record
PendenciaGet(p, k) == IF p = {} THEN None ELSE (CHOOSE r \in p : TRUE)[k]

\* the session as _init_state() leaves it on the first run
SessionInit ==
    /\ step = 1
    /\ pendencia = {}
    /\ tasks_genericas_preview = <<>>
    /\ tasks_genericas = <<>>
    /\ wbs = <<>>
    /\ pending_id = None
    /\ codigo_wbs = <<>>
    /\ criar_genericas = "unset"
    /\ w_inclui = [t \in TemplateKeys |-> "unset"]
    /\ w_cat = [t \in Multiplicadores |-> ""]
    /\ w_item = [k \in ItemKeys |-> "unset"]
    /\ w_check = [k \in CheckKeys |-> "unset"]
    /\ w_dias = [k \in CheckKeys |-> 0]
    /\ erros = <<>>
    /\ exc = ""
    /\ chamadas = <<>>

EngineIdle ==
    /\ fn = ""
    /\ args = <<>>
    /\ ret = <<>>
    /\ done = FALSE

\* init_db() on a new database file: no row yet
DbInit ==
    /\ planejamentos = <<>>
    /\ envios = <<>>

\* render_step3, up to the buttons: the defaults it writes for the widgets
\* of the templates, given the inclui checkboxes of this run
Step3Defaults(inclui) ==
    /\ w_cat' = [t \in Multiplicadores |->
                    IF inclui[t] = "on" /\ w_cat[t] = ""
                    THEN Templates[t].categorias[1].nome ELSE w_cat[t]]
    /\ w_check' = [k \in CheckKeys |->
                    IF inclui[k[1]] = "on" /\ w_check[k] = "unset" THEN "on" ELSE w_check[k]]
    /\ w_dias' = [k \in CheckKeys |->
                    IF inclui[k[1]] = "on" /\ w_dias[k] = 0
                    THEN (CHOOSE tf \in {Templates[k[1]].tarefas[j] :
                                             j \in 1..Len(Templates[k[1]].tarefas)} : tf.id = k[2]).dias_default
                    ELSE w_dias[k]]

\* what the user may type in the step-1 form
OsInputs == {<<>>, <<" ", "A">>}
SubconjuntoInputs == {<<" ">>, <<"S">>}
NomePendenciaInputs == {<<" ">>, <<"N">>}

\* variant: the error branch does not return
Step1Confirmar_sem_retorno ==
    /\ step = 1
    /\ \E os_in \in OsInputs, sub_in \in SubconjuntoInputs,
          nome_in \in NomePendenciaInputs, prazo_val \in Hoje..(Hoje + MaxPrazoW) :
          /\ erros' = <<>>
          /\ pendencia' = {[os |-> strip(os_in),
                            subconjunto |-> strip(sub_in),
                            nome_pendencia |-> strip(nome_in),
                            descricao |-> <<>>,
                            prazo_limite |-> isoformat(prazo_val),
                            projeto |-> None,
                            projeto_id |-> None,
                            projeto_nome |-> None,
                            projeto_cliente |-> None]}
          /\ step' = 2
          /\ criar_genericas' = IF criar_genericas = "off" THEN "off" ELSE "on"
          /\ tasks_genericas_preview' =
                 IF criar_genericas = "off" THEN <<>> ELSE tasks_genericas_preview
          /\ tasks_genericas' = IF criar_genericas = "off" THEN <<>> ELSE tasks_genericas
          /\ UNCHANGED <<wbs, pending_id, codigo_wbs, w_inclui, w_cat, w_item, w_check, w_dias>>
    /\ exc' = ""
    /\ chamadas' = <<>>
    /\ UNCHANGED <<engine_vars, db_vars>>

\* render_step1, "Confirmar e avancar"
Step1Confirmar ==
    /\ step = 1
    /\ \E os_in \in OsInputs, sub_in \in SubconjuntoInputs,
          nome_in \in NomePendenciaInputs, prazo_val \in Hoje..(Hoje + MaxPrazoW) :
        LET os_val == strip(os_in)
            subconjunto_val == strip(sub_in)
            nome_pendencia_val == strip(nome_in)
            e1 == IF os_val = <<>> THEN << <<"O", "S", " ", "é", " ", "o", "b", "r", "i", "g", "a", "t", "ó", "r", "i", "o", ".">> >> ELSE <<>>
            e2 == IF subconjunto_val = <<>> THEN << <<"S", "u", "b", "c", "o", "n", "j", "u", "n", "t", "o", " ", "é", " ", "o", "b", "r", "i", "g", "a", "t", "ó", "r", "i", "o", ".">> >> ELSE <<>>
            e3 == IF nome_pendencia_val = <<>> THEN << <<"N", "o", "m", "e", " ", "d", "a", " ", "p", "e", "n", "d", "ê", "n", "c", "i", "a", " ", "é", " ", "o", "b", "r", "i", "g", "a", "t", "ó", "r", "i", "o", ".">> >> ELSE <<>>
            e4 == IF prazo_val < Hoje THEN << <<"P", "r", "a", "z", "o", " ", "l", "i", "m", "i", "t", "e", " ", "d", "e", "v", "e", " ", "s", "e", "r", " ", "m", "a", "i", "o", "r", " ", "o", "u", " ", "i", "g", "u", "a", "l", " ", "a", " ", "h", "o", "j", "e", ".">> >> ELSE <<>>
            errs == e1 \o e2 \o e3 \o e4
        IN  IF errs # <<>>
            THEN /\ erros' = errs
                 /\ UNCHANGED <<session_vars>>
            ELSE /\ erros' = <<>>
                 /\ pendencia' = {[os |-> os_val,
                                   subconjunto |-> subconjunto_val,
                                   nome_pendencia |-> nome_pendencia_val,
                                   descricao |-> <<>>,
                                   prazo_limite |-> isoformat(prazo_val),
                                   projeto |-> None,
                                   projeto_id |-> None,
                                   projeto_nome |-> None,
                                   projeto_cliente |-> None]}
                 /\ step' = 2
                 \* the rerun renders step 2 and stores its checkbox
                 /\ criar_genericas' = IF criar_genericas = "off" THEN "off" ELSE "on"
                 /\ tasks_genericas_preview' =
                        IF criar_genericas = "off" THEN <<>> ELSE tasks_genericas_preview
                 /\ tasks_genericas' = IF criar_genericas = "off" THEN <<>> ELSE tasks_genericas
                 /\ UNCHANGED <<wbs, pending_id, codigo_wbs, w_inclui, w_cat, w_item, w_check, w_dias>>
    /\ exc' = ""
    /\ chamadas' = <<>>
    /\ UNCHANGED <<engine_vars, db_vars>>

\* render_step2, the "Criar tasks genericas" checkbox
Step2ToggleCriar ==
    /\ step = 2
    /\ PendenciaGet(pendencia, "prazo_limite") # None
    /\ criar_genericas' = IF criar_genericas = "on" THEN "off" ELSE "on"
    /\ IF criar_genericas' = "off"
       THEN tasks_genericas_preview' = <<>> /\ tasks_genericas' = <<>>
       ELSE UNCHANGED <<tasks_genericas_preview, tasks_genericas>>
    /\ erros' = <<>>
    /\ exc' = ""
    /\ chamadas' = <<>>
    /\ UNCHANGED <<step, pendencia, wbs, pending_id, codigo_wbs,
                   w_inclui, w_cat, w_item, w_check, w_dias, engine_vars, db_vars>>

\* the rows render_step2 builds from the distributor's records
RowsPreview(preview, os_val, subconjunto_val) ==
    [k \in 1..Len(preview) |->
        LET it == preview[k]
            nome == formatar_nome_task_generica(os_val, subconjunto_val,
                                                100 * it.percentual_pendencia, strptime(it.data))
                        \o <<" ", "|", " ", "d", "o", "n", "o", " ">> \o Str(it.dono_idx)
        IN  [data |-> it.data,
             horas_previstas |-> it.horas_previstas,
             percentual_pendencia |-> it.percentual_pendencia,
             status |-> it.status,
             ajustada_feriado |-> it.ajustada_feriado,
             dono_idx |-> it.dono_idx,
             dono_total |-> it.dono_total,
             nome |-> nome]]

RowsPayload(rows) ==
    [k \in 1..Len(rows) |->
        [nome |-> rows[k].nome,
         data |-> rows[k].data,
         horas_previstas |-> rows[k].horas_previstas,
         percentual_pendencia |-> rows[k].percentual_pendencia,
         status |-> rows[k].status]]

\* render_step2, "Distribuir dias uteis"
Step2Distribuir ==
    /\ step = 2
    /\ PendenciaGet(pendencia, "prazo_limite") # None
    /\ criar_genericas = "on"
    /\ \E data_inicio \in Hoje..(Hoje + MaxInicioW), colaboradores \in 1..MaxColabW :
        LET prazo_limite == strptime(PendenciaGet(pendencia, "prazo_limite"))
            preview == distribuir_tasks_diarias_por_colaboradores(
                           data_inicio, prazo_limite, colaboradores, 90)
            rows == RowsPreview(preview, PendenciaGet(pendencia, "os"),
                                PendenciaGet(pendencia, "subconjunto"))
        IN  IF data_inicio > prazo_limite
            THEN /\ tasks_genericas_preview' = <<>>
                 /\ tasks_genericas' = <<>>
                 /\ erros' = << <<"D", "a", "t", "a", " ", "d", "e", " ", "i", "n", "í", "c", "i", "o", " ", "n", "ã", "o", " ", "p", "o", "d", "e", " ", "s", "e", "r", " ", "m", "a", "i", "o", "r", " ", "q", "u", "e", " ", "o", " ", "p", "r", "a", "z", "o", " ", "l", "i", "m", "i", "t", "e", ".">> >>
            ELSE IF preview = <<>>
            THEN /\ tasks_genericas_preview' = <<>>
                 /\ tasks_genericas' = <<>>
                 /\ erros' = <<>>
            ELSE /\ tasks_genericas_preview' = rows
                 /\ tasks_genericas' = RowsPayload(rows)
                 /\ erros' = <<>>
    /\ exc' = ""
    /\ chamadas' = <<>>
    /\ UNCHANGED <<step, pendencia, wbs, pending_id, codigo_wbs, criar_genericas,
                   w_inclui, w_cat, w_item, w_check, w_dias, engine_vars, db_vars>>

\* render_step2, "<- Voltar"
Step2Voltar ==
    /\ step = 2
    /\ step' = 1
    /\ erros' = <<>>
    /\ exc' = ""
    /\ chamadas' = <<>>
    /\ UNCHANGED <<pendencia, tasks_genericas_preview, tasks_genericas, wbs, pending_id,
                   codigo_wbs, criar_genericas, w_inclui, w_cat, w_item, w_check, w_dias,
                   engine_vars, db_vars>>

\* render_step2, "Confirmar e avancar" (disabled unless pode_avancar)
Step2Avancar ==
    /\ step = 2
    /\ PendenciaGet(pendencia, "prazo_limite") # None
    /\ criar_genericas # "on" \/ tasks_genericas # <<>>
    /\ step' = 3
    \* the rerun renders step 3
    /\ w_inclui' = [t \in TemplateKeys |-> IF w_inclui[t] = "unset" THEN "off" ELSE w_inclui[t]]
    /\ Step3Defaults(w_inclui')
    /\ erros' = <<>>
    /\ exc' = ""
    /\ chamadas' = <<>>
    /\ UNCHANGED <<pendencia, tasks_genericas_preview, tasks_genericas, wbs, pending_id,
                   codigo_wbs, criar_genericas, w_item, engine_vars, db_vars>>

Step3Ready ==
    /\ step = 3
    /\ PendenciaGet(pendencia, "os") # None
    /\ PendenciaGet(pendencia, "subconjunto") # None

Step3Quiet ==
    /\ erros' = <<>>
    /\ exc' = ""
    /\ chamadas' = <<>>
    /\ UNCHANGED <<step, pendencia, tasks_genericas_preview, tasks_genericas, wbs, pending_id,
                   criar_genericas, engine_vars, db_vars>>

\* render_step3, the "Codigo do WBS" text input
Step3SetCodigo ==
    /\ Step3Ready
    /\ \E c \in Codigos : c # codigo_wbs /\ codigo_wbs' = c
    /\ Step3Quiet
    /\ UNCHANGED <<w_inclui, w_cat, w_item, w_check, w_dias>>

\* render_step3, an "Incluir este WBS" checkbox
Step3ToggleInclui ==
    /\ Step3Ready
    /\ \E t \in TemplateKeys :
          w_inclui' = [w_inclui EXCEPT ![t] = IF @ = "on" THEN "off" ELSE "on"]
    /\ Step3Defaults(w_inclui')
    /\ Step3Quiet
    /\ UNCHANGED <<codigo_wbs, w_item>>

\* render_step3, "Selecionar todas" of a percentual template
Step3SelecionarTodas ==
    /\ Step3Ready
    /\ \E t \in Percentuais :
          /\ w_inclui[t] = "on"
          /\ w_check' = [k \in CheckKeys |-> IF k[1] = t THEN "on" ELSE w_check[k]]
    /\ Step3Quiet
    /\ UNCHANGED <<codigo_wbs, w_inclui, w_cat, w_item, w_dias>>

\* render_step3, "Limpar selecao" of a percentual template
Step3LimparSelecao ==
    /\ Step3Ready
    /\ \E t \in Percentuais :
          /\ w_inclui[t] = "on"
          /\ w_check' = [k \in CheckKeys |-> IF k[1] = t THEN "off" ELSE w_check[k]]
    /\ Step3Quiet
    /\ UNCHANGED <<codigo_wbs, w_inclui, w_cat, w_item, w_dias>>

\* render_step3, the checkbox of one task
Step3ToggleCheck ==
    /\ Step3Ready
    /\ \E k \in CheckKeys :
          /\ w_inclui[k[1]] = "on"
          /\ w_check' = [w_check EXCEPT ![k] = IF @ = "on" THEN "off" ELSE "on"]
    /\ Step3Quiet
    /\ UNCHANGED <<codigo_wbs, w_inclui, w_cat, w_item, w_dias>>

\* render_step3, the number input of one selected task (1..30)
Step3SetDias ==
    /\ Step3Ready
    /\ \E k \in CheckKeys, d \in 1..MaxDiasW :
          /\ w_inclui[k[1]] = "on"
          /\ w_check[k] = "on"
          /\ d # w_dias[k]
          /\ w_dias' = [w_dias EXCEPT ![k] = d]
    /\ Step3Quiet
    /\ UNCHANGED <<codigo_wbs, w_inclui, w_cat, w_item, w_check>>

\* render_step3, "Selecionar todos" of a multiplicador template
Step3SelecionarTodos ==
    /\ Step3Ready
    /\ \E t \in Multiplicadores :
          /\ w_inclui[t] = "on"
          /\ w_item' = [k \in ItemKeys |-> IF k[1] = t THEN "on" ELSE w_item[k]]
    /\ Step3Quiet
    /\ UNCHANGED <<codigo_wbs, w_inclui, w_cat, w_check, w_dias>>

\* render_step3, "Limpar" of a multiplicador template
Step3Limpar ==
    /\ Step3Ready
    /\ \E t \in Multiplicadores :
          /\ w_inclui[t] = "on"
          /\ w_item' = [k \in ItemKeys |-> IF k[1] = t THEN "off" ELSE w_item[k]]
    /\ Step3Quiet
    /\ UNCHANGED <<codigo_wbs, w_inclui, w_cat, w_check, w_dias>>

\* render_step3, the checkbox of one item
Step3ToggleItem ==
    /\ Step3Ready
    /\ \E k \in ItemKeys :
          /\ w_inclui[k[1]] = "on"
          /\ w_item' = [w_item EXCEPT ![k] = IF @ = "on" THEN "off" ELSE "on"]
    /\ Step3Quiet
    /\ UNCHANGED <<codigo_wbs, w_inclui, w_cat, w_check, w_dias>>

\* render_step3, "<- Voltar"
Step3Voltar ==
    /\ step = 3
    /\ step' = 2
    \* the rerun renders step 2 and stores its checkbox
    /\ criar_genericas' = IF criar_genericas = "off" THEN "off" ELSE "on"
    /\ IF criar_genericas' = "off"
       THEN tasks_genericas_preview' = <<>> /\ tasks_genericas' = <<>>
       ELSE UNCHANGED <<tasks_genericas_preview, tasks_genericas>>
    /\ erros' = <<>>
    /\ exc' = ""
    /\ chamadas' = <<>>
    /\ UNCHANGED <<pendencia, wbs, pending_id, codigo_wbs,
                   w_inclui, w_cat, w_item, w_check, w_dias, engine_vars, db_vars>>

\* the parameters the expanders declare
Params_gerar_tarefas_expandidas ==
    {"nome_wbs", "projeto", "wbs_type", "tarefas_selecionadas"}
Params_gerar_tarefas_multiplicador ==
    {"nome_wbs", "projeto", "wbs_type", "categoria_nome", "itens", "tarefas_fixas"}

\* a Python call by keyword of a function whose parameters have no default:
\* TypeError unless the keywords are exactly the parameters
Invocar(params, kwargs, resultado) ==
    IF DOMAIN kwargs = params
    THEN [exc |-> "", ret |-> resultado]
    ELSE [exc |-> "TypeError", ret |-> <<>>]

\* str(x or "")
StrOr(x) == IF x = None THEN <<>> ELSE x

\* the payloads built from one template's expanded tasks
TasksPayload(tarefas_exp, os_val, subconjunto_val, wbs_type, projeto_label, projeto_id) ==
    LET com_nome == SelectSeq(tarefas_exp, LAMBDA t : t.tarefa # <<>>)
    IN  [k \in 1..Len(com_nome) |->
            LET t == com_nome[k]
                p0 == [nome |-> t.tarefa, os |-> os_val, subconjunto |-> subconjunto_val,
                       wbs_type |-> wbs_type]
                p1 == IF projeto_label # None THEN p0 @@ [projeto |-> projeto_label] ELSE p0
                p2 == IF projeto_id # None THEN p1 @@ [projeto_id |-> projeto_id] ELSE p1
            IN  IF "categoria" \in DOMAIN t /\ t.categoria # ""
                THEN p2 @@ [categoria |-> t.categoria] ELSE p2]

\* one pass of the loop over templates.items() of the confirm flow
ConfirmarTemplate(wbs_type, acc) ==
    LET template == Templates[wbs_type]
        nome_template == template.nome
        os_val == StrOr(PendenciaGet(pendencia, "os"))
        subconjunto_val == StrOr(PendenciaGet(pendencia, "subconjunto"))
        projeto_label == PendenciaGet(pendencia, "projeto_nome")
        projeto_id == PendenciaGet(pendencia, "projeto_id")
        falha(msg) == [acc EXCEPT !.erros = Append(@, nome_template \o <<":", " ">> \o msg)]
        depois(nome_fn, r) ==
            LET acc1 == [acc EXCEPT !.chamadas = Append(@, [fn |-> nome_fn, wbs_type |-> wbs_type,
                                                         validado |-> TRUE, exc |-> r.exc])]
                tasks_payload == TasksPayload(r.ret, os_val, subconjunto_val, wbs_type,
                                              projeto_label, projeto_id)
            IN  IF r.exc # "" THEN [acc1 EXCEPT !.exc = r.exc]
                ELSE IF tasks_payload = <<>>
                THEN [acc1 EXCEPT !.erros = Append(@, nome_template \o <<":", " ", "n", "e", "n", "h", "u", "m", "a", " ", "t", "a", "s", "k", " ", "g", "e", "r", "a", "d", "a", ".">>)]
                ELSE [acc1 EXCEPT !.total_tasks = @ + Len(tasks_payload),
                                  !.wbs_out = Append(@, [template |-> wbs_type,
                                                         nome |-> nome_template,
                                                         tasks |-> tasks_payload])]
    IN  IF w_inclui[wbs_type] # "on" THEN acc
        ELSE IF template.tipo_logica = "multiplicador"
        THEN LET categorias == template.categorias
                 cat_nome == w_cat[wbs_type]
                 cats == {c \in 1..Len(categorias) : categorias[c].nome = cat_nome}
             IN  IF cat_nome = "" \/ cats = {} THEN falha(<<"c", "a", "t", "e", "g", "o", "r", "i", "a", " ", "i", "n", "v", "á", "l", "i", "d", "a", ".">>)
                 ELSE LET categoria == categorias[CHOOSE c \in cats : TRUE]
                          itens_categoria == categoria.itens
                          marcados == [i \in 1..Len(itens_categoria) |->
                                          IF w_item[<<wbs_type, i - 1>>] = "on"
                                          THEN <<itens_categoria[i]>> ELSE <<>>]
                          itens_sel == Flatten(marcados)
                          v == validar_multiplicador(itens_sel).ret
                      IN  IF ~v[1] THEN falha(v[2])
                          ELSE depois("gerar_tarefas_multiplicador",
                                   Invocar(Params_gerar_tarefas_multiplicador,
                                       [nome_wbs |-> codigo_wbs,
                                        projeto |-> StrOr(projeto_label),
                                        wbs_type |-> wbs_type,
                                        categoria_nome |-> categoria.nome,
                                        itens |-> itens_sel,
                                        tarefas_fixas |-> categoria.tarefas,
                                        projeto_id |-> projeto_id],
                                       gerar_tarefas_multiplicador(codigo_wbs, StrOr(projeto_label),
                                           wbs_type, categoria.nome, itens_sel, categoria.tarefas).ret))
        ELSE LET tarefas == template.tarefas
                 marcadas == [k \in 1..Len(tarefas) |->
                                 IF w_check[<<wbs_type, tarefas[k].id>>] = "on"
                                 THEN << [id |-> tarefas[k].id, nome |-> tarefas[k].nome,
                                          dias |-> IF w_dias[<<wbs_type, tarefas[k].id>>] = 0
                                                   THEN tarefas[k].dias_default
                                                   ELSE w_dias[<<wbs_type, tarefas[k].id>>]] >>
                                 ELSE <<>>]
                 tarefas_sel == Flatten(marcadas)
                 v == validar_selecao(tarefas_sel)
             IN  IF ~v[1] THEN falha(v[2])
                 ELSE depois("gerar_tarefas_expandidas",
                          Invocar(Params_gerar_tarefas_expandidas,
                              [nome_wbs |-> codigo_wbs,
                               projeto |-> StrOr(projeto_label),
                               wbs_type |-> wbs_type,
                               tarefas_selecionadas |-> tarefas_sel,
                               projeto_id |-> projeto_id],
                              gerar_tarefas_expandidas(codigo_wbs, StrOr(projeto_label),
                                                       wbs_type, tarefas_sel)))

RECURSIVE ConfirmarLoop(_, _)
\* the loop over templates.items(); an exception ends it
ConfirmarLoop(k, acc) ==
    IF k > Len(TemplateOrder) \/ acc.exc # "" THEN acc
    ELSE ConfirmarLoop(k + 1, ConfirmarTemplate(TemplateOrder[k], acc))

\* render_step3, "Confirmar WBS e avancar"
Step3Confirmar ==
    /\ Step3Ready
    /\ LET r == ConfirmarLoop(1, [exc |-> "", erros |-> <<>>, wbs_out |-> <<>>,
                                  total_tasks |-> 0, chamadas |-> <<>>])
       IN  /\ chamadas' = r.chamadas
           /\ exc' = r.exc
           /\ IF r.exc # ""
              THEN erros' = <<>> /\ UNCHANGED <<step, wbs>>
              ELSE IF r.erros # <<>>
              THEN erros' = r.erros /\ UNCHANGED <<step, wbs>>
              ELSE IF r.total_tasks <= 0
              THEN /\ erros' = << <<"S", "e", "l", "e", "c", "i", "o", "n", "e", " ", "a", "o", " ", "m", "e", "n", "o", "s", " ", "1", " ", "t", "a", "s", "k", " ", "e", "m", " ", "a", "o", " ", "m", "e", "n", "o", "s", " ", "1", " ", "W", "B", "S", " ", "p", "a", "r", "a", " ", "a", "v", "a", "n", "ç", "a", "r", ".">> >>
                   /\ UNCHANGED <<step, wbs>>
              ELSE erros' = <<>> /\ wbs' = r.wbs_out /\ step' = 4
    /\ UNCHANGED <<pendencia, tasks_genericas_preview, tasks_genericas, pending_id,
                   codigo_wbs, criar_genericas, w_inclui, w_cat, w_item, w_check, w_dias,
                   engine_vars, db_vars>>

WizardInit == EngineIdle /\ SessionInit /\ DbInit

WizardNext ==
    \/ Step1Confirmar
    \/ Step2ToggleCriar
    \/ Step2Distribuir
    \/ Step2Voltar
    \/ Step2Avancar
    \/ Step3SetCodigo
    \/ Step3ToggleInclui
    \/ Step3SelecionarTodas
    \/ Step3LimparSelecao
    \/ Step3ToggleCheck
    \/ Step3SetDias
    \/ Step3SelecionarTodos
    \/ Step3Limpar
    \/ Step3ToggleItem
    \/ Step3Voltar
    \/ Step3Confirmar

SpecWizard == WizardInit /\ [][WizardNext]_vars

(***************************************************************************)
(* Engine calls: the initial state holds a call about to be made, each     *)
(* action is the call of one function                                      *)
(***************************************************************************)
Init ==
    /\ fn \in Funcoes
    /\ args \in ArgsDe(fn)
    /\ ret = <<>>
    /\ done = FALSE
    /\ SessionInit
    /\ DbInit

Call_calcular_percentuais ==
    /\ fn = "calcular_percentuais"
    /\ ~done
    /\ ret' = calcular_percentuais(args.dias)
    /\ done' = TRUE
    /\ UNCHANGED <<fn, args, session_vars, run_vars, db_vars>>

Call_gerar_tarefas_expandidas ==
    /\ fn = "gerar_tarefas_expandidas"
    /\ ~done
    /\ ret' = gerar_tarefas_expandidas(args.nome_wbs, args.projeto, args.wbs_type,
                                     args.tarefas_selecionadas)
    /\ done' = TRUE
    /\ UNCHANGED <<fn, args, session_vars, run_vars, db_vars>>

Call_validar_selecao ==
    /\ fn = "validar_selecao"
    /\ ~done
    /\ ret' = validar_selecao(args.tarefas_selecionadas)
    /\ done' = TRUE
    /\ UNCHANGED <<fn, args, session_vars, run_vars, db_vars>>

Call_gerar_tarefas_multiplicador ==
    /\ fn = "gerar_tarefas_multiplicador"
    /\ ~done
    /\ LET r == gerar_tarefas_multiplicador(args.nome_wbs, args.projeto, args.wbs_type,
                                            args.categoria_nome, args.itens, args.tarefas_fixas)
       IN  /\ ret' = r.ret
           /\ args' = [args EXCEPT !.itens = r.itens]
    /\ done' = TRUE
    /\ UNCHANGED <<fn, session_vars, run_vars, db_vars>>

Call_validar_multiplicador ==
    /\ fn = "validar_multiplicador"
    /\ ~done
    /\ LET r == validar_multiplicador(args.itens)
       IN  /\ ret' = r.ret
           /\ args' = [args EXCEPT !.itens = r.itens]
    /\ done' = TRUE
    /\ UNCHANGED <<fn, session_vars, run_vars, db_vars>>

Call__distribuir_com_ajuste_final ==
    /\ fn = "_distribuir_com_ajuste_final"
    /\ ~done
    /\ ret' = _distribuir_com_ajuste_final(args.total4, args.n, args.casas)
    /\ done' = TRUE
    /\ UNCHANGED <<fn, args, session_vars, run_vars, db_vars>>

Call_distribuir_tasks_diarias_por_colaboradores ==
    /\ fn = "distribuir_tasks_diarias_por_colaboradores"
    /\ ~done
    /\ ret' = distribuir_tasks_diarias_por_colaboradores(args.data_inicio, args.prazo_limite,
                                                       args.colaboradores, args.horas_por_colaborador)
    /\ done' = TRUE
    /\ UNCHANGED <<fn, args, session_vars, run_vars, db_vars>>

Call_resolver_data_task ==
    /\ fn = "resolver_data_task"
    /\ ~done
    /\ ret' = resolver_data_task(args.sexta, args.feriados)
    /\ done' = TRUE
    /\ UNCHANGED <<fn, args, session_vars, run_vars, db_vars>>

Call_proximas_datas_tasks ==
    /\ fn = "proximas_datas_tasks"
    /\ ~done
    /\ ret' = proximas_datas_tasks(args.data_inicio, args.prazo_limite, args.feriados)
    /\ done' = TRUE
    /\ UNCHANGED <<fn, args, session_vars, run_vars, db_vars>>

Call_distribuir_tasks_semanais ==
    /\ fn = "distribuir_tasks_semanais"
    /\ ~done
    /\ ret' = distribuir_tasks_semanais(args.data_inicio, args.prazo_limite,
                                        args.horas_totais, args.feriados)
    /\ done' = TRUE
    /\ UNCHANGED <<fn, args, session_vars, run_vars, db_vars>>

Call_formatar_nome_task_generica ==
    /\ fn = "formatar_nome_task_generica"
    /\ ~done
    /\ ret' = formatar_nome_task_generica(args.os, args.subconjunto, args.percentual, args.data)
    /\ done' = TRUE
    /\ UNCHANGED <<fn, args, session_vars, run_vars, db_vars>>

Next ==
    \/ Call_calcular_percentuais
    \/ Call_gerar_tarefas_expandidas
    \/ Call_validar_selecao
    \/ Call_gerar_tarefas_multiplicador
    \/ Call_validar_multiplicador
    \/ Call__distribuir_com_ajuste_final
    \/ Call_distribuir_tasks_diarias_por_colaboradores
    \/ Call_resolver_data_task
    \/ Call_proximas_datas_tasks
    \/ Call_distribuir_tasks_semanais
    \/ Call_formatar_nome_task_generica

Spec == Init /\ [][Next]_vars

(***************************************************************************)
(* A caller that makes several expander calls in a row.  The modules hold  *)
(* no state of their own (no module-level variable is assigned, no default *)
(* argument is mutable), so a call sees its arguments only; chamadas       *)
(* records each call: its arguments before, its result, and its arguments  *)
(* as the call left them.                                                  *)
(***************************************************************************)
ArgsChamada(f) ==
    CASE f = "gerar_tarefas_expandidas" ->
            {[nome_wbs |-> <<"0", "1", "0">>, projeto |-> "Projeto A", wbs_type |-> "eletrico",
              tarefas_selecionadas |-> sel] :
                 sel \in {<<[id |-> 1, nome |-> <<"X">>, dias |-> 2]>>,
                          <<[id |-> 2, nome |-> <<"Y", "z">>, dias |-> 1],
                            [id |-> 1, nome |-> <<"X">>, dias |-> 0]>>}}
      [] f = "gerar_tarefas_multiplicador" ->
            {[nome_wbs |-> <<"0", "1", "0">>, projeto |-> "Projeto A", wbs_type |-> "aquisicao",
              categoria_nome |-> "Hardware", itens |-> it, tarefas_fixas |-> <<TarefaFixa1, TarefaFixa2>>] :
                 it \in {<< <<" ", "a">>, <<>>, <<"a">> >>, << <<"a">> >>}}
      [] f = "distribuir_tasks_diarias_por_colaboradores" ->
            [data_inicio : {MinData}, prazo_limite : {MinData + 1, MinData + 8},
             colaboradores : {2}, horas_por_colaborador : {90}]
      [] f = "distribuir_tasks_semanais" ->
            [data_inicio : {MinData}, prazo_limite : {MinData + 1},
             horas_totais : {3}, feriados : {{}, {MinData}}]

Chamar_gerar_tarefas_expandidas ==
    \E a \in ArgsChamada("gerar_tarefas_expandidas") :
        LET resultado == [ret |-> gerar_tarefas_expandidas(a.nome_wbs, a.projeto, a.wbs_type,
                                                         a.tarefas_selecionadas)]
            depois == a
        IN  /\ Len(chamadas) < MaxChamadas
            /\ fn' = "gerar_tarefas_expandidas"
            /\ args' = depois
            /\ ret' = resultado.ret
            /\ done' = TRUE
            /\ chamadas' = Append(chamadas, [fn |-> "gerar_tarefas_expandidas", antes |-> a,
                                             ret |-> resultado.ret, depois |-> depois])
            /\ UNCHANGED <<session_vars, erros, exc, db_vars>>

Chamar_gerar_tarefas_multiplicador ==
    \E a \in ArgsChamada("gerar_tarefas_multiplicador") :
        LET resultado == gerar_tarefas_multiplicador(a.nome_wbs, a.projeto, a.wbs_type,
                                                     a.categoria_nome, a.itens, a.tarefas_fixas)
            depois == [a EXCEPT !.itens = resultado.itens]
        IN  /\ Len(chamadas) < MaxChamadas
            /\ fn' = "gerar_tarefas_multiplicador"
            /\ args' = depois
            /\ ret' = resultado.ret
            /\ done' = TRUE
            /\ chamadas' = Append(chamadas, [fn |-> "gerar_tarefas_multiplicador", antes |-> a,
                                             ret |-> resultado.ret, depois |-> depois])
            /\ UNCHANGED <<session_vars, erros, exc, db_vars>>

Chamar_distribuir_tasks_diarias_por_colaboradores ==
    \E a \in ArgsChamada("distribuir_tasks_diarias_por_colaboradores") :
        LET resultado == [ret |-> distribuir_tasks_diarias_por_colaboradores(
                                      a.data_inicio, a.prazo_limite, a.colaboradores,
                                      a.horas_por_colaborador)]
            depois == a
        IN  /\ Len(chamadas) < MaxChamadas
            /\ fn' = "distribuir_tasks_diarias_por_colaboradores"
            /\ args' = depois
            /\ ret' = resultado.ret
            /\ done' = TRUE
            /\ chamadas' = Append(chamadas, [fn |-> "distribuir_tasks_diarias_por_colaboradores", antes |-> a,
                                             ret |-> resultado.ret, depois |-> depois])
            /\ UNCHANGED <<session_vars, erros, exc, db_vars>>

Chamar_distribuir_tasks_semanais ==
    \E a \in ArgsChamada("distribuir_tasks_semanais") :
        LET resultado == [ret |-> distribuir_tasks_semanais(a.data_inicio, a.prazo_limite,
                                                          a.horas_totais, a.feriados)]
            depois == a
        IN  /\ Len(chamadas) < MaxChamadas
            /\ fn' = "distribuir_tasks_semanais"
            /\ args' = depois
            /\ ret' = resultado.ret
            /\ done' = TRUE
            /\ chamadas' = Append(chamadas, [fn |-> "distribuir_tasks_semanais", antes |-> a,
                                             ret |-> resultado.ret, depois |-> depois])
            /\ UNCHANGED <<session_vars, erros, exc, db_vars>>

ChamadasInit == EngineIdle /\ SessionInit /\ DbInit

ChamadasNext ==
    \/ Chamar_gerar_tarefas_expandidas
    \/ Chamar_gerar_tarefas_multiplicador
    \/ Chamar_distribuir_tasks_diarias_por_colaboradores
    \/ Chamar_distribuir_tasks_semanais

SpecChamadas == ChamadasInit /\ [][ChamadasNext]_vars

(***************************************************************************)
(* app.py: step 4, review and submit                                       *)
(***************************************************************************)
\* the ids the pendencia webhook may answer
PendingIds == {<<"7">>, <<"8">>}

\* requests.post(webhook_pendencia) and the reading of its answer: the call
\* fails (raise_for_status), or it answers with an id or without one
RespostasPendencia ==
    {[ok |-> FALSE, pending_id |-> None]} \cup [ok : {TRUE}, pending_id : PendingIds \cup {None}]

\* requests.post(webhook_tasks) followed by raise_for_status
RespostasTasks == {"ok", "falha"}

\* the session render_step3 leaves when it stores wbs_out and goes to step 4,
\* for the percentual template selected with its defaults
EnvioInit ==
    /\ EngineIdle
    /\ DbInit
    /\ step = 4
    /\ \E prazo_val \in Hoje..(Hoje + MaxPrazoW), os_in \in OsInputs \ {<<>>} :
          /\ pendencia = {[os |-> strip(os_in),
                           subconjunto |-> <<"S">>,
                           nome_pendencia |-> <<"N">>,
                           descricao |-> <<>>,
                           prazo_limite |-> isoformat(prazo_val),
                           projeto |-> None,
                           projeto_id |-> None,
                           projeto_nome |-> None,
                           projeto_cliente |-> None]}
          /\ wbs = << [template |-> "eletrico",
                       nome |-> Templates["eletrico"].nome,
                       tasks |-> TasksPayload(
                                     gerar_tarefas_expandidas(<<>>, <<>>, "eletrico",
                                         << [id |-> 1, nome |-> <<"X">>, dias |-> 1] >>),
                                     strip(os_in), <<"S">>, "eletrico", None, None)] >>
    /\ tasks_genericas_preview = <<>>
    /\ tasks_genericas = <<>>
    /\ pending_id = None
    /\ codigo_wbs = <<>>
    /\ criar_genericas = "off"
    /\ w_inclui = [t \in TemplateKeys |-> IF t = "eletrico" THEN "on" ELSE "off"]
    /\ w_cat = [t \in Multiplicadores |-> ""]
    /\ w_item = [k \in ItemKeys |-> "unset"]
    /\ w_check = [k \in CheckKeys |-> "on"]
    /\ w_dias = [k \in CheckKeys |-> 1]
    /\ erros = <<>>
    /\ exc = ""
    /\ chamadas = <<>>

\* render_step4, "Criar tudo no Monday" (enabled when both endpoints are
\* configured): the two webhook calls and the journal row
Step4Criar ==
    /\ step = 4
    /\ pendencia # {}
    /\ Len(envios) < MaxEnvios
    /\ \E r1 \in RespostasPendencia, r2 \in RespostasTasks \cup {"nao_chamado"} :
          /\ (r2 = "nao_chamado") <=> (r1.pending_id = None)
          /\ LET criou == r1.pending_id # None
                 \* st.session_state.pending_id = pending_id
                 na_sessao == IF criou THEN r1.pending_id ELSE pending_id
                 sucesso == criou /\ r2 = "ok"
                 payload == [tasks_genericas |-> tasks_genericas, wbs |-> wbs]
                 \* except Exception: pending_id = st.session_state.get("pending_id")
                 linha == IF sucesso
                          THEN << [pending_id |-> r1.pending_id,
                                   os |-> PendenciaGet(pendencia, "os"),
                                   subconjunto |-> PendenciaGet(pendencia, "subconjunto"),
                                   payload |-> payload,
                                   status |-> "ok",
                                   erro_msg |-> ""] >>
                          ELSE IF na_sessao # None
                          THEN << [pending_id |-> na_sessao,
                                   os |-> PendenciaGet(pendencia, "os"),
                                   subconjunto |-> PendenciaGet(pendencia, "subconjunto"),
                                   payload |-> payload,
                                   status |-> "erro_tasks",
                                   erro_msg |-> IF r1.ok /\ ~criou THEN "ValueError"
                                                ELSE "HTTPError"] >>
                          ELSE <<>>
             IN  /\ pending_id' = na_sessao
                 /\ planejamentos' = planejamentos \o linha
                 /\ envios' = Append(envios, [pendencia |-> r1, tasks |-> r2,
                                              gravado |-> IF linha = <<>> THEN ""
                                                          ELSE linha[1].status])
                 /\ erros' = IF sucesso THEN <<>>
                             ELSE IF na_sessao # None
                             THEN << <<"F", "a", "l", "h", "a", " ", "a", "o", " ", "c", "r", "i", "a", "r", " ", "t", "a", "s", "k", "s", ".", " ", "A", " ", "p", "e", "n", "d", "ê", "n", "c", "i", "a", " ", "j", "á", " ", "f", "o", "i", " ", "c", "r", "i", "a", "d", "a", ".">> >>
                             \* f"Falha ao criar pendencia: {e}", without the text of e
                             ELSE << <<"F", "a", "l", "h", "a", " ", "a", "o", " ", "c", "r", "i", "a", "r", " ", "p", "e", "n", "d", "ê", "n", "c", "i", "a">> >>
    /\ exc' = ""
    /\ chamadas' = <<>>
    /\ UNCHANGED <<step, pendencia, tasks_genericas_preview, tasks_genericas, wbs,
                   codigo_wbs, criar_genericas, w_inclui, w_cat, w_item, w_check, w_dias,
                   engine_vars>>

\* render_step4, "<- Voltar"
Step4Voltar ==
    /\ step = 4
    /\ pendencia # {}
    /\ step' = 3
    \* the rerun renders step 3
    /\ w_inclui' = [t \in TemplateKeys |-> IF w_inclui[t] = "unset" THEN "off" ELSE w_inclui[t]]
    /\ Step3Defaults(w_inclui')
    /\ erros' = <<>>
    /\ exc' = ""
    /\ chamadas' = <<>>
    /\ UNCHANGED <<pendencia, tasks_genericas_preview, tasks_genericas, wbs, pending_id,
                   codigo_wbs, criar_genericas, w_item, engine_vars, db_vars>>

\* render_step4, "Voltar ao inicio (editar)"
Step4VoltarInicio ==
    /\ step = 4
    /\ pendencia # {}
    /\ step' = 1
    /\ erros' = <<>>
    /\ exc' = ""
    /\ chamadas' = <<>>
    /\ UNCHANGED <<pendencia, tasks_genericas_preview, tasks_genericas, wbs, pending_id,
                   codigo_wbs, criar_genericas, w_inclui, w_cat, w_item, w_check, w_dias,
                   engine_vars, db_vars>>

EnvioNext ==
    \/ Step4Criar
    \/ Step4Voltar
    \/ Step4VoltarInicio

SpecEnvio == EnvioInit /\ [][EnvioNext]_vars

(***************************************************************************)
(* Properties of the engine                                                *)
(***************************************************************************)
Returned(f) == fn = f /\ done

\* whether sequence t occurs in sequence s
Contains(s, t) == \E i \in 1..(Len(s) - Len(t) + 1) : SubSeq(s, i, i + Len(t) - 1) = t

\* whether t is x without its leading and trailing blanks
IsTrimOf(t, x) ==
    /\ t # <<>>
    /\ t[1] # " " /\ t[Len(t)] # " "
    /\ \E i \in 1..Len(x) :
          /\ SubSeq(x, i, i + Len(t) - 1) = t
          /\ \A j \in 1..Len(x) : (j < i \/ j >= i + Len(t)) => x[j] = " "

IsBlank(x) == \A j \in 1..Len(x) : x[j] = " "

\* C1: every non-empty result of distribuir_tasks_diarias_por_colaboradores
\* has percentual_pendencia values that sum, at one decimal, to 100.0
C1_SomaPercentuais ==
    Returned("distribuir_tasks_diarias_por_colaboradores") /\ ret # <<>>
        => SumSeq([k \in 1..Len(ret) |-> ret[k].percentual_pendencia]) = 1000

\* 6 weekdays for 1 owner: five shares of 16.7 and a closing share of 16.5
C1_Witness ==
    /\ Returned("distribuir_tasks_diarias_por_colaboradores")
    /\ Len(ret) = 6
    /\ ret[1].percentual_pendencia = 167
    /\ ret[6].percentual_pendencia = 165

\* C2 (as claimed): for n >= 1 the result of _distribuir_com_ajuste_final has
\* length n, its first n-1 entries equal base = round(total/n, casas), its
\* last entry is round(total - round(sum of the first n-1), casas), and it
\* sums to round(total, casas); (100.0, 3, 1) gives [33.3, 33.3, 33.4]
C2_FechaTotal ==
    Returned("_distribuir_com_ajuste_final") /\ args.n >= 1 =>
        LET total == FloatDeQuartos(args.total4)
            base == PyRoundN(FDiv(args.total4, 4 * args.n), args.casas)
            soma == FDiv((args.n - 1) * base, Pow10(args.casas))
        IN  /\ Len(ret) = args.n
            /\ \A k \in 1..(args.n - 1) : ret[k] = base
            /\ ret[args.n] = PyRoundNSigned(FSub(total, soma), args.casas)
            /\ SumSeq(ret) = PyRoundN(total, args.casas)
            /\ (args.total4 = 400 /\ args.n = 3 /\ args.casas = 1 => ret = <<333, 333, 334>>)

\* C3: for dias in 1..30 calcular_percentuais(dias) has length dias, is
\* non-decreasing and ends at 100; for dias <= 0 it is empty
C3_Percentuais ==
    Returned("calcular_percentuais") =>
        /\ args.dias <= 0 => ret = <<>>
        /\ args.dias >= 1 =>
              /\ Len(ret) = args.dias
              /\ \A k \in 1..(Len(ret) - 1) : ret[k] <= ret[k + 1]
              /\ ret[Len(ret)] = 100

C3_Witness == Returned("calcular_percentuais") /\ args.dias = 30 /\ Len(ret) = 30 /\ ret[29] = 97

\* C4 (as claimed): for dias = n >= 2 element i < n of calcular_percentuais(n)
\* is min(round(100*i/n), 100) and element n is 100; (1) = [100],
\* (2) = [50,100], (3) = [33,67,100], (4) = [25,50,75,100]
C4_FormulaPercentual ==
    Returned("calcular_percentuais") =>
        /\ args.dias >= 2 =>
              /\ \A i \in 1..(args.dias - 1) :
                    ret[i] = Min(PyRound(FDiv(100 * i, args.dias)), 100)
              /\ ret[args.dias] = 100
        /\ args.dias = 1 => ret = <<100>>
        /\ args.dias = 2 => ret = <<50, 100>>
        /\ args.dias = 3 => ret = <<33, 67, 100>>
        /\ args.dias = 4 => ret = <<25, 50, 75, 100>>

\* C5: for every list of selections (a selection has dias >= 1: it is what
\* validar_selecao accepts and what the step-3 day input, whose minimum is 1,
\* produces) the output of gerar_tarefas_expandidas is as long as the sum of
\* dias over the selections
C5_ComprimentoSomaDias ==
    Returned("gerar_tarefas_expandidas") =>
        LET sel == args.tarefas_selecionadas
        IN  (\A s \in 1..Len(sel) : GetDias(sel[s]) >= 1) =>
                Len(ret) = SumSeq([s \in 1..Len(sel) |-> sel[s].dias])

C5_Witness ==
    /\ Returned("gerar_tarefas_expandidas")
    /\ Len(args.tarefas_selecionadas) = 2
    /\ args.tarefas_selecionadas[1].dias = 2
    /\ args.tarefas_selecionadas[2].dias = 3
    /\ Len(ret) = 5

\* C6: gerar_tarefas_expandidas emits the selections in input order and each
\* selection's entries in ascending (never decreasing) percentage ending at
\* 100; each label is
\* "{nome_wbs} - {id}. {nome} - {percent}%" and each entry carries the call's
\* projeto and wbs_type
C6_OrdemERotulo ==
    Returned("gerar_tarefas_expandidas") =>
        LET sel == args.tarefas_selecionadas
            cnt(s) == Max(sel[s].dias, 0)
            off(s) == SumSeq([t \in 1..(s - 1) |-> cnt(t)])
            rotulo(s, p) == args.nome_wbs \o <<" ", "-", " ">> \o Str(sel[s].id) \o <<".", " ">>
                                \o sel[s].nome \o <<" ", "-", " ">> \o Str(p) \o <<"%">>
        IN  \A s \in 1..Len(sel) : \A j \in 1..cnt(s) :
                /\ off(s) + j <= Len(ret)
                /\ ret[off(s) + j].projeto = args.projeto
                /\ ret[off(s) + j].wbs_type = args.wbs_type
                /\ DOMAIN ret[off(s) + j] = {"tarefa", "projeto", "wbs_type"}
                /\ \E p \in 0..100 :
                      /\ ret[off(s) + j].tarefa = rotulo(s, p)
                      /\ j = cnt(s) => p = 100
                      /\ j < cnt(s) =>
                            \E p2 \in p..100 : ret[off(s) + j + 1].tarefa = rotulo(s, p2)

C6_Witness ==
    /\ Returned("gerar_tarefas_expandidas")
    /\ Len(ret) = 5
    /\ args.tarefas_selecionadas[1].id = 2
    /\ args.tarefas_selecionadas[1].dias = 3
    /\ ret[1].tarefa = <<"0", "1", "0", " ", "-", " ", "2", ".", " ", "X", " ", "-", " ", "3", "3", "%">>
    /\ ret[5].tarefa = <<"0", "1", "0", " ", "-", " ", "1", ".", " ", "Y", "z", " ", "-", " ", "1", "0", "0", "%">>

\* C7: gerar_tarefas_multiplicador returns (items non-blank after trimming,
\* duplicates counted) x len(tarefas_fixas) entries, item-major in input
\* order then fixed task in input order; no entry is for a blank item
C7_ProdutoCartesiano ==
    Returned("gerar_tarefas_multiplicador") =>
        LET validos == SelectSeq(args.itens, LAMBDA x : ~IsBlank(x))
            nf == Len(args.tarefas_fixas)
        IN  /\ Len(ret) = Len(validos) * nf
            /\ \A a \in 1..Len(validos) : \A b \in 1..nf :
                  \E t \in Itens :
                      /\ IsTrimOf(t, validos[a])
                      /\ ret[(a - 1) * nf + b].tarefa =
                             args.nome_wbs \o <<" ", "-", " ", "<">> \o t \o <<">", " ", "-", " ">> \o args.tarefas_fixas[b]
                      /\ ret[(a - 1) * nf + b].categoria = args.categoria_nome
            /\ \A k \in 1..Len(ret) : \A x \in Itens :
                  IsBlank(x) => ret[k].tarefa # args.nome_wbs \o <<" ", "-", " ", "<">> \o x \o <<">", " ", "-", " ">>
                                                   \o args.tarefas_fixas[1 + ((k - 1) % nf)]

\* a blank item between an item and its duplicate, two fixed tasks: 4 entries
C7_Witness ==
    /\ Returned("gerar_tarefas_multiplicador")
    /\ args.itens = << <<"a">>, <<" ">>, <<" ", "a">> >>
    /\ Len(args.tarefas_fixas) = 2
    /\ Len(ret) = 4
    /\ ret[3].tarefa = ret[1].tarefa

\* C8: validar_selecao fails with a non-empty message on an empty list, fails
\* with a message containing the offending task's name when a selection has
\* dias <= 0, and otherwise succeeds with an empty message
C8_ValidarSelecao ==
    Returned("validar_selecao") =>
        LET sel == args.tarefas_selecionadas
            ruins == {j \in 1..Len(sel) : sel[j].dias <= 0}
        IN  /\ sel = <<>> => ret[1] = FALSE /\ ret[2] # <<>>
            /\ ruins # {} =>
                  /\ ret[1] = FALSE
                  /\ \E j \in ruins : (\A l \in ruins : j <= l) /\ Contains(ret[2], sel[j].nome)
            /\ sel # <<>> /\ ruins = {} => ret = <<TRUE, <<>>>>

C8_Witness ==
    /\ Returned("validar_selecao")
    /\ Len(args.tarefas_selecionadas) = 2
    /\ args.tarefas_selecionadas[1].dias = 1
    /\ args.tarefas_selecionadas[2] = [id |-> 1, nome |-> <<"X">>, dias |-> 0]
    /\ ret[1] = FALSE
    /\ Contains(ret[2], <<"X">>)

\* C9: validar_multiplicador fails, with a non-empty message, exactly when no
\* item is non-blank, and succeeds otherwise; it returns only the pair and
\* leaves its input list as it was
C9_ValidarMultiplicador ==
    [][fn = "validar_multiplicador" /\ ~done /\ done' =>
          /\ args'.itens = args.itens
          /\ Len(ret') = 2
          /\ ret'[1] = (\E j \in 1..Len(args.itens) : ~IsBlank(args.itens[j]))
          /\ ~ret'[1] => ret'[2] # <<>>]_vars

C9_Witness ==
    /\ Returned("validar_multiplicador")
    /\ args.itens = << <<" ">>, <<>>, <<" ", " ">> >>
    /\ ret[1] = FALSE

\* the Monday-to-Friday dates of [a, b]; ordinal 1 is a Monday
DiasDeSemana(a, b) == {d \in a..b : d % 7 \in 1..5}

\* the k-th smallest element of a finite set of dates
Enesimo(S, k) == CHOOSE d \in S : Cardinality({x \in S : x < d}) = k - 1

\* C11: distribuir_tasks_diarias_por_colaboradores returns (number of
\* Monday-Friday dates in [data_inicio, prazo_limite], endpoints included)
\* x colaboradores records, and the empty list when colaboradores <= 0, when
\* data_inicio > prazo_limite or when the range holds no weekday
C11_ContagemDiasUteis ==
    Returned("distribuir_tasks_diarias_por_colaboradores") =>
        LET uteis == DiasDeSemana(args.data_inicio, args.prazo_limite)
        IN  /\ args.colaboradores > 0 => Len(ret) = Cardinality(uteis) * args.colaboradores
            /\ (args.colaboradores <= 0 \/ args.data_inicio > args.prazo_limite \/ uteis = {})
                   => ret = <<>>

C11_Witness ==
    /\ Returned("distribuir_tasks_diarias_por_colaboradores")
    /\ args.data_inicio = 22
    /\ args.prazo_limite = 33
    /\ args.colaboradores = 2
    /\ Len(ret) = 20

\* C12: the records of distribuir_tasks_diarias_por_colaboradores are in
\* date-major, owner-minor order: for the k-th weekday of the range, ascending,
\* one record per dono_idx 1..colaboradores in increasing dono_idx; every record
\* has dono_total = colaboradores, horas_previstas = horas_por_colaborador,
\* status "planejada" and ajustada_feriado false
C12_OrdemDataDono ==
    Returned("distribuir_tasks_diarias_por_colaboradores") /\ args.colaboradores > 0 =>
        LET uteis == DiasDeSemana(args.data_inicio, args.prazo_limite)
            c == args.colaboradores
        IN  /\ Len(ret) = Cardinality(uteis) * c
            /\ \A k \in 1..Cardinality(uteis) : \A j \in 1..c :
                   LET r == ret[(k - 1) * c + j]
                   IN  /\ r.data = isoformat(Enesimo(uteis, k))
                       /\ r.dono_idx = j
                       /\ r.dono_total = c
                       /\ r.horas_previstas = args.horas_por_colaborador
                       /\ r.status = "planejada"
                       /\ r.ajustada_feriado = FALSE

C12_Witness ==
    /\ Returned("distribuir_tasks_diarias_por_colaboradores")
    /\ args.data_inicio = 26
    /\ args.prazo_limite = 29
    /\ args.colaboradores = 2
    /\ args.horas_por_colaborador = 45
    /\ Len(ret) = 4
    /\ ret[2].data = <<"0", "0", "0", "1", "-", "0", "1", "-", "2", "6">>
    /\ ret[2].dono_idx = 2
    /\ ret[3].data = <<"0", "0", "0", "1", "-", "0", "1", "-", "2", "9">>
    /\ ret[3].dono_idx = 1
    /\ ret[3].horas_previstas = 45

\* the Fridays on or after data_inicio whose holiday-resolved date is not
\* later than prazo_limite (sexta + 3 when the Friday is a holiday).  The
\* resolved date grows with the Friday, so these are the consecutive Fridays
\* up to the first one whose resolved date exceeds prazo_limite.
SextasNoPrazo(data_inicio, prazo_limite, feriados) ==
    {c \in data_inicio..prazo_limite :
        c % 7 = 5 /\ (IF c \in feriados THEN c + 3 ELSE c) <= prazo_limite}

\* C13: the weekly walk of proximas_datas_tasks returns, in order, the
\* holiday-resolved dates of the consecutive Fridays from the first Friday on
\* or after data_inicio, stopping once the resolved date exceeds prazo_limite;
\* no returned date is later than prazo_limite and an entry's flag is true
\* exactly when its Friday was a holiday.  (When the walk yields no date the
\* result is the edge case of C14.)
C13_SextasResolvidas ==
    Returned("proximas_datas_tasks") =>
        LET sextas == SextasNoPrazo(args.data_inicio, args.prazo_limite, args.feriados)
        IN  /\ \A k \in 1..Len(ret) : ret[k][1] <= args.prazo_limite
            /\ sextas # {} =>
                  /\ Len(ret) = Cardinality(sextas)
                  /\ \A k \in 1..Len(ret) :
                        LET sexta == Enesimo(sextas, k)
                        IN  /\ ret[k][1] = IF sexta \in args.feriados THEN sexta + 3 ELSE sexta
                            /\ ret[k][2] = (sexta \in args.feriados)
                  /\ \A k \in 1..(Len(ret) - 1) : ret[k][1] < ret[k + 1][1]

C13_Witness ==
    /\ Returned("proximas_datas_tasks")
    /\ args.data_inicio = 23
    /\ args.prazo_limite = 42
    /\ args.feriados = {26, 40}
    /\ ret = << <<29, TRUE>>, <<33, FALSE>> >>

\* C14: when the weekly walk of proximas_datas_tasks produces no date and
\* data_inicio <= prazo_limite the result is exactly one entry, dated at
\* prazo_limite with flag false; when data_inicio > prazo_limite it is empty
C14_CasoDeBorda ==
    Returned("proximas_datas_tasks") =>
        LET sextas == SextasNoPrazo(args.data_inicio, args.prazo_limite, args.feriados)
        IN  /\ sextas = {} /\ args.data_inicio <= args.prazo_limite
                   => ret = << <<args.prazo_limite, FALSE>> >>
            /\ args.data_inicio > args.prazo_limite => ret = <<>>

C14_Witness ==
    /\ Returned("proximas_datas_tasks")
    /\ args.data_inicio = 24
    /\ args.prazo_limite = 27
    /\ args.feriados = {26}
    /\ ret = << <<27, FALSE>> >>

\* C15: resolver_data_task returns sexta unchanged when sexta is not in the
\* holiday set and sexta + 3 days when it is, which is the following Monday
\* when sexta is a Friday
C15_ResolverData ==
    Returned("resolver_data_task") =>
        /\ args.sexta \notin args.feriados => ret = args.sexta
        /\ args.sexta \in args.feriados => ret = args.sexta + 3
        /\ args.sexta \in args.feriados /\ args.sexta % 7 = 5 => ret % 7 = 1 /\ ret > args.sexta

C15_Witness ==
    /\ Returned("resolver_data_task")
    /\ args.sexta = 40
    /\ args.feriados = {26, 40}
    /\ ret = 43

\* C16 (as claimed): distribuir_tasks_semanais emits one record per weekday
\* of [data_inicio, prazo_limite] in ascending date order, with
\* horas_previstas summing to round(horas_totais, 1) and percentual_pendencia
\* summing to 100.0, ajustada_feriado always false, and an output that does
\* not depend on the feriados argument
C16_DistribuicaoSemanal ==
    Returned("distribuir_tasks_semanais") =>
        LET uteis == DiasDeSemana(args.data_inicio, args.prazo_limite)
        IN  /\ Len(ret) = Cardinality(uteis)
            /\ \A k \in 1..Len(ret) :
                   /\ ret[k].data = isoformat(Enesimo(uteis, k))
                   /\ ret[k].ajustada_feriado = FALSE
            /\ ret # <<>> =>
                   /\ SumSeq([k \in 1..Len(ret) |-> ret[k].horas_previstas])
                          = PyRoundN(FloatDeQuartos(args.horas_totais), 1)
                   /\ SumSeq([k \in 1..Len(ret) |-> ret[k].percentual_pendencia]) = 1000
            /\ \A outros \in Feriados :
                   ret = distribuir_tasks_semanais(args.data_inicio, args.prazo_limite,
                                                   args.horas_totais, outros)

\* C17: formatar_nome_task_generica renders
\* "{os} - {subconjunto} - {percent} | Dia {dd/mm}"; percent has no decimal
\* point when the value is whole and exactly one decimal digit otherwise (the
\* value rounded to one decimal); 50.0 renders "50%" and 33.333 "33.3%"
C17_NomeTaskGenerica ==
    Returned("formatar_nome_task_generica") =>
        LET prefixo == args.os \o <<" ", "-", " ">> \o args.subconjunto \o <<" ", "-", " ">>
            \* day and month of a date of January or February of the year 1
            dia == IF args.data <= 31 THEN args.data ELSE args.data - 31
            mes == IF args.data <= 31 THEN 1 ELSE 2
            dois(v) == <<DigitChars[(v \div 10) + 1], DigitChars[(v % 10) + 1]>>
            sufixo == <<" ", "|", " ", "D", "i", "a", " ">> \o dois(dia) \o <<"/">> \o dois(mes)
            pct == SubSeq(ret, Len(prefixo) + 1, Len(ret) - Len(sufixo))
            mag == IF args.percentual < 0 THEN 0 - args.percentual ELSE args.percentual
            num == IF pct # <<>> /\ pct[1] = "-" THEN Tail(pct) ELSE pct
            pontos == {j \in 1..Len(num) : num[j] = "."}
            digitos(t) == \A j \in 1..Len(t) : \E v \in 1..10 : DigitChars[v] = t[j]
        IN  /\ Len(ret) >= Len(prefixo) + Len(sufixo) + 2
            /\ SubSeq(ret, 1, Len(prefixo)) = prefixo
            /\ SubSeq(ret, Len(ret) - Len(sufixo) + 1, Len(ret)) = sufixo
            /\ num[Len(num)] = "%"
            /\ (pct[1] = "-") = (args.percentual < 0)
            /\ IF mag % 1000 = 0
               THEN pontos = {} /\ num = StrNat(mag \div 1000) \o <<"%">>
               ELSE /\ pontos = {Len(num) - 2}
                    /\ \E t \in 0..10010 :
                          /\ num = StrNat(t \div 10) \o <<".">> \o StrNat(t % 10) \o <<"%">>
                          /\ 100 * t - mag <= 50
                          /\ mag - 100 * t <= 50
            /\ (args.percentual = 50000 => pct = <<"5", "0", "%">>)
            /\ (args.percentual = 33333 => pct = <<"3", "3", ".", "3", "%">>)

C17_Witness ==
    /\ Returned("formatar_nome_task_generica")
    /\ args.percentual = 33333
    /\ args.data = 32
    /\ args.subconjunto = <<"E", "s", "t", " ", "1">>
    /\ ret = <<"0", "1", " ", "-", " ", "E", "s", "t", " ", "1", " ", "-", " ",
               "3", "3", ".", "3", "%", " ", "|", " ", "D", "i", "a", " ",
               "0", "1", "/", "0", "2">>

C19_ParcelasEntre0e100 ==
    /\ Returned("_distribuir_com_ajuste_final") /\ args.total4 = 400 /\ args.casas = 1
           => \A k \in 1..Len(ret) : 0 <= ret[k] /\ ret[k] <= 1000
    /\ Returned("distribuir_tasks_diarias_por_colaboradores") \/ Returned("distribuir_tasks_semanais")
           => \A k \in 1..Len(ret) :
                  0 <= ret[k].percentual_pendencia /\ ret[k].percentual_pendencia <= 1000

\* C23: whenever validar_selecao accepts a selection list,
\* gerar_tarefas_expandidas returns a non-empty list in which every selection
\* has at least one entry of its own (selections with the same id and nome
\* each have one); whenever validar_multiplicador accepts an item list and
\* tarefas_fixas is not empty, gerar_tarefas_multiplicador returns a non-empty
\* list whose entries are, in order, those of exactly the items that are not
\* blank, trimmed
C23_ValidadoresEExpansores ==
    /\ (Returned("gerar_tarefas_expandidas") /\ validar_selecao(args.tarefas_selecionadas)[1]) =>
          LET sel == args.tarefas_selecionadas
              prefixo(s) == args.nome_wbs \o <<" ", "-", " ">> \o Str(sel[s].id) \o <<".", " ">>
                                \o sel[s].nome \o <<" ", "-", " ">>
              de(k, s) == /\ Len(ret[k].tarefa) > Len(prefixo(s)) + 1
                          /\ SubSeq(ret[k].tarefa, 1, Len(prefixo(s))) = prefixo(s)
                          /\ ret[k].tarefa[Len(ret[k].tarefa)] = "%"
          IN  /\ ret # <<>>
              /\ \A s \in 1..Len(sel) :
                    Cardinality({k \in 1..Len(ret) : de(k, s)})
                        >= Cardinality({t \in 1..Len(sel) : prefixo(t) = prefixo(s)})
    /\ (/\ Returned("gerar_tarefas_multiplicador")
        /\ validar_multiplicador(args.itens).ret[1]
        /\ args.tarefas_fixas # <<>>) =>
          LET validos == SelectSeq(args.itens, LAMBDA x : ~IsBlank(x))
              nf == Len(args.tarefas_fixas)
          IN  /\ ret # <<>>
              /\ Len(ret) = Len(validos) * nf
              /\ \A a \in 1..Len(validos) : \A b \in 1..nf :
                    \E t \in Itens :
                        /\ IsTrimOf(t, validos[a])
                        /\ ret[(a - 1) * nf + b].tarefa =
                               args.nome_wbs \o <<" ", "-", " ", "<">> \o t \o <<">", " ", "-", " ">>
                                   \o args.tarefas_fixas[b]

\* an accepted item list with a blank item and an item to trim: the entries
\* are those of the two other items
C23_Witness ==
    /\ Returned("gerar_tarefas_multiplicador")
    /\ validar_multiplicador(args.itens).ret[1]
    /\ args.itens = << <<" ">>, <<"a", " ">>, <<"a">> >>
    /\ args.tarefas_fixas = <<TarefaFixa1>>
    /\ Len(ret) = 2
    /\ ret[1].tarefa = ret[2].tarefa

(***************************************************************************)
(* Properties of the wizard                                                *)
(***************************************************************************)
\* C10 (as claimed): in the step-3 confirm flow every expander call follows
\* its validator's acceptance and returns a complete list without an error,
\* and a confirm run that called an expander and reported no error leaves the
\* wizard on step 4 with the expanded tasks stored in wbs
C10_ExpansoresNuncaFalham ==
    /\ \A k \in 1..Len(chamadas) : chamadas[k].validado /\ chamadas[k].exc = ""
    /\ chamadas # <<>> /\ erros = <<>> => step = 4 /\ wbs # <<>>

\* the pendencia a successful step-1 confirm stores: os, subconjunto,
\* nome_pendencia and prazo_limite are all present and not blank
PendenciaCompleta(p) ==
    /\ p # {}
    /\ \A k \in {"os", "subconjunto", "nome_pendencia", "prazo_limite"} :
          PendenciaGet(p, k) # <<>> /\ ~IsBlank(PendenciaGet(p, k))

\* C22: the step is always in 1..4; the wizard is on step 2, 3 or 4 only
\* with a pendencia whose os, subconjunto, nome_pendencia and prazo_limite
\* are non-empty, and it leaves step 1 only by a confirm that stores such a
\* pendencia; a step-1 confirm that reports a missing field leaves step and
\* pendencia unchanged.
C22_PassoExigePendencia ==
    /\ [](step \in 1..4 /\ (step \in 2..4 => PendenciaCompleta(pendencia)))
    /\ [][step = 1 => /\ erros' # <<>> => step' = step /\ pendencia' = pendencia
                      /\ (step' # step \/ pendencia' # pendencia)
                             => step' = 2 /\ PendenciaCompleta(pendencia')]_vars

\* back on step 1 with a stored pendencia, a confirm with a blank field was
\* refused
C22_Witness ==
    /\ step = 1
    /\ erros # <<>>
    /\ PendenciaCompleta(pendencia)

====
